---- MODULE Spec2Model ----
(***************************************************************************)
(* Allocation engine of the SOLIDserver provider: the create handlers of   *)
(* the IPv4 subnet, IPv6 subnet, VLAN and IPv6 pool resources (candidate   *)
(* search, gateway computation, optimistic reservation loop) and the       *)
(* update, delete and import handlers of the subnets and the VLAN, against *)
(* an external inventory; and the single-request create handlers of the    *)
(* device, IP alias, application, DNS record and IPv6 MAC association      *)
(* resources; and the Read, Exists and import handlers that refresh a      *)
(* resource of the local state, with the version gate of the application.  *)
(*                                                                         *)
(* The digit-sequence operators (Digits .. NumValOf) are the arithmetic of *)
(* this representation; every other definition names the code it models.   *)
(*                                                                         *)
(* Representation of values (TLC integers are 32-bit signed, so addresses  *)
(* are never held in one integer):                                         *)
(*   hexadecimal wire form   sequence of hex digits 0..15                  *)
(*   dotted IPv4 address     <<a, b, c, d>>, octets                        *)
(*   uint32                  <<hi, lo>>, two 16-bit halves                 *)
(*   Go int (64-bit)         <<top, hi, lo>>, 16-bit limbs (48 bits kept)  *)
(*   big.Int                 big-endian sequence of 16-bit limbs, any      *)
(*                           length                                        *)
(*   colon IPv6 address      sequence of groups, each a sequence of hex    *)
(*                           digits                                        *)
(*   VLAN id string          sequence of decimal digits                    *)
(***************************************************************************)
EXTENDS Integers, Sequences, FiniteSets, TLC

\* Longest candidate list the candidate finder returns.
MaxCands == 3
\* Number of concurrent create calls of the race specification.
NCallers == 3

Callers == 1..NCallers

(***************************************************************************)
(* Natural numbers as big-endian digit sequences in base B.  The           *)
(* recursions are functions, so that their arguments are evaluated once.   *)
(***************************************************************************)
Digits == Seq(Nat)

RevOf[s \in Digits] == [k \in 1..Len(s) |-> s[Len(s) + 1 - k]]

Rev(s) == RevOf[s]

Zeros(n) == [k \in 1..n |-> 0]

\* Little-endian a + b + c.
NumAddLE[a \in Digits, b \in Digits, B \in Nat, c \in Nat] ==
    IF Len(a) = 0 /\ Len(b) = 0
    THEN IF c = 0 THEN <<>> ELSE <<c>>
    ELSE LET x == IF Len(a) = 0 THEN 0 ELSE Head(a)
             y == IF Len(b) = 0 THEN 0 ELSE Head(b)
         IN  <<(x + y + c) % B>> \o NumAddLE[IF Len(a) = 0 THEN a ELSE Tail(a),
                                             IF Len(b) = 0 THEN b ELSE Tail(b),
                                             B, (x + y + c) \div B]

\* a + b; the result is as long as the longer operand, one digit longer on carry.
NumAdd(a, b, B) == Rev(NumAddLE[Rev(a), Rev(b), B, 0])

\* Little-endian a - b - borrow, for a >= b.
NumSubLE[a \in Digits, b \in Digits, B \in Nat, borrow \in Nat] ==
    IF Len(a) = 0
    THEN <<>>
    ELSE LET y == IF Len(b) = 0 THEN 0 ELSE Head(b)
             t == Head(a) - y - borrow
         IN  <<(t + B) % B>> \o NumSubLE[Tail(a), IF Len(b) = 0 THEN b ELSE Tail(b),
                                         B, IF t < 0 THEN 1 ELSE 0]

\* a - b for a >= b; the result is as long as a.
NumSub(a, b, B) == Rev(NumSubLE[Rev(a), Rev(b), B, 0])

\* a without its leading zeros.
NumStripOf[a \in Digits] == IF Len(a) > 0 /\ Head(a) = 0 THEN NumStripOf[Tail(a)] ELSE a

NumStrip(a) == NumStripOf[a]

\* a left-padded with zeros to at least n digits.
NumPadOf[a \in Digits, n \in Nat] == IF Len(a) >= n THEN a ELSE Zeros(n - Len(a)) \o a

NumPad(a, n) == NumPadOf[a, n]

\* a <= b, for stripped a and b.
NumLessEqOf[a \in Digits, b \in Digits] ==
    IF Len(a) # Len(b) THEN Len(a) < Len(b)
    ELSE IF Len(a) = 0 THEN TRUE
    ELSE IF Head(a) # Head(b) THEN Head(a) < Head(b)
    ELSE NumLessEqOf[Tail(a), Tail(b)]

NumLessEq(a, b) == NumLessEqOf[NumStrip(a), NumStrip(b)]

\* The digits of n.
NumOfNatIn[n \in Nat, B \in Nat] == IF n < B THEN <<n>> ELSE NumOfNatIn[n \div B, B] \o <<n % B>>

NumOfNat(n, B) == NumOfNatIn[n, B]

\* 2^e in base 2^w.
NumPow2(e, w) == <<2 ^ (e % w)>> \o Zeros(e \div w)

\* The value of a short digit sequence (it must fit a TLC integer).
NumValOf[a \in Digits, B \in Nat] ==
    IF Len(a) = 0 THEN 0 ELSE NumValOf[SubSeq(a, 1, Len(a) - 1), B] * B + a[Len(a)]

\* Regroup a digit sequence: every g digits of base B become one digit of base B^g
\* (a shorter first group when the length is no multiple of g).
NumJoinOf[a \in Digits, g \in Nat, B \in Nat] ==
    IF Len(a) = 0 THEN <<>>
    ELSE LET n == IF Len(a) % g = 0 THEN g ELSE Len(a) % g
         IN  <<NumValOf[SubSeq(a, 1, n), B]>> \o NumJoinOf[SubSeq(a, n + 1, Len(a)), g, B]

NumJoin(a, g, B) == NumJoinOf[a, g, B]

\* Every digit of base B^g as g digits of base B.
NumSplitOf[a \in Digits, g \in Nat, B \in Nat] ==
    IF Len(a) = 0 THEN <<>>
    ELSE NumPad(NumOfNat(Head(a), B), g) \o NumSplitOf[Tail(a), g, B]

NumSplit(a, g, B) == NumSplitOf[a, g, B]

(***************************************************************************)
(* Address codec.  These helpers are called by the handlers; they convert  *)
(* between the wire form, the human notation and integers.                 *)
(***************************************************************************)
\* The two digits of an octet read as decimal digits.
hexiptoipDecimal(hexip) ==
    <<hexip[1] * 10 + hexip[2], hexip[3] * 10 + hexip[4],
      hexip[5] * 10 + hexip[6], hexip[7] * 10 + hexip[8]>>

\* "%02x%02x%02x%02x" read back as "%d.%d.%d.%d".
hexiptoip(hexip) ==
    <<hexip[1] * 16 + hexip[2], hexip[3] * 16 + hexip[4],
      hexip[5] * 16 + hexip[6], hexip[7] * 16 + hexip[8]>>

\* Dotted notation to the 32-bit integer.
iptolong(ip) == <<ip[1] * 256 + ip[2], ip[3] * 256 + ip[4]>>

\* The 32-bit integer to dotted notation.
longtoip(iplong) ==
    <<iplong[1] \div 256, iplong[1] % 256, iplong[2] \div 256, iplong[2] % 256>>

\* Dotted notation to the wire form.
iptohexip(ip) ==
    <<ip[1] \div 16, ip[1] % 16, ip[2] \div 16, ip[2] % 16,
      ip[3] \div 16, ip[3] % 16, ip[4] \div 16, ip[4] % 16>>

\* 1 << (32 - length), a Go int.
prefixlengthtosize(length) ==
    LET e == 32 - length
    IN  IF e >= 32 THEN <<2 ^ (e - 32), 0, 0>>
        ELSE IF e >= 16 THEN <<0, 2 ^ (e - 16), 0>>
        ELSE <<0, 0, 2 ^ e>>

\* The netmask of a prefix length, in wire form.
prefixlengthtohexip(length) ==
    LET hi == IF length >= 16 THEN 65535 ELSE 65536 - 2 ^ (16 - length)
        lo == IF length <= 16 THEN 0 ELSE 65536 - 2 ^ (32 - length)
    IN  iptohexip(longtoip(<<hi, lo>>))

abs(x) == IF x < 0 THEN -x ELSE x

\* A non-negative Go int held in a TLC integer, as limbs.
GoInt(n) == <<0, n \div 65536, n % 65536>>

\* Go's conversion uint32(int): the low 32 bits.
uint32(w) == <<w[2], w[3]>>

\* uint32 + uint32, wrapping.
AddUint32(x, y) ==
    LET lo == x[2] + y[2]
    IN  <<(x[1] + y[1] + lo \div 65536) % 65536, lo % 65536>>

\* uint32 - uint32, wrapping.
SubUint32(x, y) ==
    LET lo == x[2] - y[2]
        borrow == IF lo < 0 THEN 1 ELSE 0
    IN  <<(x[1] - y[1] - borrow + 65536) % 65536, (lo + 65536) % 65536>>

\* new(big.Int).SetString(hex, 16)
BigSetString16(hex) == NumJoin(hex, 4, 16)

\* big.NewInt(int64(n)) for n >= 0
BigNewInt(n) == NumOfNat(n, 65536)

BigAdd(x, y) == NumAdd(x, y, 65536)

\* x - y for x >= y
BigSub(x, y) == NumSub(x, y, 65536)

\* 2^(128 - length) as a big.Int
prefix6lengthtosize(length) == NumPow2(128 - length, 16)

\* "%032x"
BigIntToHexStr(bigInt) == NumPad(NumStrip(NumSplit(bigInt, 4, 16)), 32)

\* A colon before every fourth digit.
ColonGroups[hexip \in Digits] ==
    IF Len(hexip) <= 4 THEN <<hexip>>
    ELSE <<SubSeq(hexip, 1, 4)>> \o ColonGroups[SubSeq(hexip, 5, Len(hexip))]

hexip6toip6(hexip) == ColonGroups[hexip]


(***************************************************************************)
(* State.                                                                  *)
(*   inv, nextOid   the external inventory: the objects it holds and the   *)
(*                  object id it gives out next                            *)
(*   req[p]         the configuration of create call p (the d.Get values)  *)
(*   pc[p]          the external call that call p issues next              *)
(*   blockInfo[p], subnetAddresses[p], i[p], gateway[p]                    *)
(*                  the local variables of the handler                     *)
(*   d[p]           the local state the handler writes (d.SetId, d.Set)    *)
(*   result[p]      the value the handler returned: "nil", or the error    *)
(*   trace[p]       the external calls issued so far, with their replies   *)
(***************************************************************************)
VARIABLES inv, nextOid, req, pc, blockInfo, subnetAddresses, i, gateway, d, result, trace

vars == <<inv, nextOid, req, pc, blockInfo, subnetAddresses, i, gateway, d, result, trace>>

\* Gateway offsets of the configurations explored.
GatewayOffsets == {-300, -2, -1, 0, 1, 5, 256}

\* Free IPv4 blocks the inventory may report, in wire form, ascending:
\* 10.0.0.0, 10.0.1.0, 10.0.2.0, 255.255.255.0 (all aligned for the prefixes explored).
FreeSubnets ==
    << <<0, 10, 0, 0, 0, 0, 0, 0>>, <<0, 10, 0, 0, 0, 1, 0, 0>>,
       <<0, 10, 0, 0, 0, 2, 0, 0>>, <<15, 15, 15, 15, 15, 15, 0, 0>> >>

\* Free IPv6 blocks, in wire form, ascending:
\* 2001:db8:0:0::, 2001:db8:0:1::, 2001:db8:0:2::, 2001:db8:0:ffff::
Subnet6(group) == <<2, 0, 0, 1, 0, 13, 11, 8, 0, 0, 0, 0>> \o group \o Zeros(16)

FreeSubnets6 ==
    << Subnet6(<<0, 0, 0, 0>>), Subnet6(<<0, 0, 0, 1>>),
       Subnet6(<<0, 0, 0, 2>>), Subnet6(<<15, 15, 15, 15>>) >>

\* Free VLAN identifiers, as decimal strings, ascending: "10", "11", "12", "20".
FreeVlanIds == << <<1, 0>>, <<1, 1>>, <<1, 2>>, <<2, 0>> >>

\* The ordered candidate lists a search may return: the non-empty runs of the free
\* list, at most MaxCands long.
CandidateLists(free) ==
    { SubSeq(free, ab[1], ab[2]) :
        ab \in { x \in (1..Len(free)) \X (1..Len(free)) :
                    x[2] >= x[1] /\ x[2] - x[1] + 1 <= MaxCands } }

Configurations ==
    [kind : {"ip"}, prefix_size : {24, 30}, gateway_offset : GatewayOffsets,
     request_id : {0}, block : {"", "blk"}, terminal : BOOLEAN,
     class_parameters : {{}}]
    \cup
    [kind : {"ip6"}, prefix_size : {64, 120}, gateway_offset : GatewayOffsets,
     request_id : {0}, block : {"", "blk"}, terminal : BOOLEAN,
     class_parameters : {{}}]
    \cup
    [kind : {"vlan"}, prefix_size : {0}, gateway_offset : {0},
     request_id : {0, 5}, block : {""}, terminal : {FALSE},
     class_parameters : {{}}]

\* The local state before Create: no ID, computed attributes unset.
NewResourceData == [id |-> 0, prefix |-> <<>>, address |-> <<>>, netmask |-> <<>>, gateway |-> <<>>]

NoBlockInfo == [id |-> "", level |-> 0]

\* The first external call of a create handler.
FirstCall(kind) ==
    IF kind = "vlan" THEN "find"
    ELSE IF kind \in {"device", "application", "rr", "ip6mac"} THEN "add"
    ELSE "site"

InitOf(active, configs) ==
    /\ inv = {}
    /\ nextOid = 1
    /\ \E c \in configs : req = [p \in Callers |-> c]
    /\ pc = [p \in Callers |-> IF p \in active THEN FirstCall(req[p].kind) ELSE "off"]
    /\ blockInfo = [p \in Callers |-> NoBlockInfo]
    /\ subnetAddresses = [p \in Callers |-> <<>>]
    /\ i = [p \in Callers |-> 0]
    /\ gateway = [p \in Callers |-> <<>>]
    /\ d = [p \in Callers |-> NewResourceData]
    /\ result = [p \in Callers |-> ""]
    /\ trace = [p \in Callers |-> <<>>]

\* One create call, of any configuration.
Init == InitOf({1}, Configurations)

(***************************************************************************)
(* The external inventory, as the handlers see it.                         *)
(***************************************************************************)
\* What a lookup or a search may answer besides its result.
LookupErrors == {"", "not found"}

\* Whether an HTTP reply carries a success status.
StatusOK(resp) == resp.err = "" /\ resp.status \in {200, 201}

\* Every shape of reply to a request: a transport error, or a status with a body
\* that is empty, holds an error message, or holds the object id oid.
Replies(oid) ==
    { [err |-> "timeout", status |-> 0, body |-> <<>>],
      [err |-> "", status |-> 201, body |-> <<[ret_oid |-> oid]>>],
      [err |-> "", status |-> 200, body |-> <<[ret_oid |-> oid]>>],
      [err |-> "", status |-> 200, body |-> <<[errmsg |-> "warning"]>>],
      [err |-> "", status |-> 200, body |-> <<>>],
      [err |-> "", status |-> 400, body |-> <<[errmsg |-> "already exists"]>>],
      [err |-> "", status |-> 400, body |-> <<>>] }

\* The reply of an inventory that reserves a free candidate and refuses a taken
\* one (add_flag = new_only is atomic and exclusive).
ExclusiveReply(kind, cand) ==
    IF \E o \in inv : o.kind = kind /\ o.cand = cand
    THEN [err |-> "", status |-> 400, body |-> <<[errmsg |-> "already exists"]>>]
    ELSE [err |-> "", status |-> 201, body |-> <<[ret_oid |-> nextOid]>>]

\* The inventory after a new_only request for cand by caller p answered resp:
\* a success status means it now holds the object.
InventoryAdd(p, kind, cand, resp) ==
    IF StatusOK(resp)
    THEN /\ inv' = inv \cup {[kind |-> kind, cand |-> cand, owner |-> p, oid |-> nextOid]}
         /\ nextOid' = nextOid + 1
    ELSE UNCHANGED <<inv, nextOid>>

Return(p, value) ==
    /\ pc' = [pc EXCEPT ![p] = "done"]
    /\ result' = [result EXCEPT ![p] = value]

Goto(p, call) ==
    /\ pc' = [pc EXCEPT ![p] = call]
    /\ UNCHANGED result

Call(p, record) == trace' = [trace EXCEPT ![p] = Append(@, record)]

\* The orders in which a range over the map class_parameters may visit its entries.
MapOrders(m) ==
    { o \in [1..Cardinality(m) -> m] : \A e \in m : \E n \in DOMAIN o : o[n] = e }

\* classParameters := url.Values{}; the computed gateway is added first when there
\* is one (gw # <<>>), then every entry of the configured map, in the order visited.
\* Add appends to the values already under the key.
ClassParameters(gw, order) ==
    (IF gw # <<>> THEN <<[k |-> "gateway", v |-> gw]>> ELSE <<>>) \o order


(***************************************************************************)
(* resourceipsubnetCreate: the IPv4 subnet create handler.  One action per *)
(* external call, each with the handler's code up to the next call.        *)
(***************************************************************************)
\* The negative offset counted from the block's start instead of its end.
ipsubnetGatewayNoSize(hexaddr, prefix_size, goffset) ==
    IF goffset > 0
    THEN longtoip(AddUint32(iptolong(hexiptoip(hexaddr)), uint32(GoInt(goffset))))
    ELSE longtoip(SubUint32(SubUint32(iptolong(hexiptoip(hexaddr)), uint32(GoInt(abs(goffset)))),
                            <<0, 1>>))

\* The gateway of candidate hexaddr for a non-zero offset.
ipsubnetGateway(hexaddr, prefix_size, goffset) ==
    IF goffset > 0
    THEN longtoip(AddUint32(iptolong(hexiptoip(hexaddr)), uint32(GoInt(goffset))))
    ELSE longtoip(SubUint32(SubUint32(AddUint32(iptolong(hexiptoip(hexaddr)),
                                                uint32(prefixlengthtosize(prefix_size))),
                                      uint32(GoInt(abs(goffset)))),
                            <<0, 1>>))

\* The gateway computed for the first candidate only.
ipsubnetGatewayVarOnce(current, hexaddr, prefix_size, goffset) ==
    IF goffset # 0 /\ current = <<>>
    THEN ipsubnetGateway(hexaddr, prefix_size, goffset)
    ELSE current

\* The variable gateway after the computation: declared before the loop, assigned
\* in every pass whose offset is not zero.
ipsubnetGatewayVar(current, hexaddr, prefix_size, goffset) ==
    IF goffset # 0
    THEN ipsubnetGateway(hexaddr, prefix_size, goffset)
    ELSE current

\* A gateway class parameter whatever the offset.
ipsubnetClassGatewayAtZero(gw, goffset) == IF goffset # 0 THEN gw ELSE <<0, 0, 0, 0>>

\* The gateway entry the handler adds to the class parameters (<<>>: none).
ipsubnetClassGateway(gw, goffset) == IF goffset # 0 THEN gw ELSE <<>>

\* A transport error taken for a failed registration.
ipsubnetAnswerRetry(resp) ==
    IF resp.err = "" /\ (resp.status = 200 \/ resp.status = 201) /\ Len(resp.body) > 0
                    /\ "ret_oid" \in DOMAIN resp.body[1]
    THEN "created"
    ELSE "next"

\* What the handler makes of the answer to a creation request: the object is
\* "created", the request met an "error", or the handler goes on to the "next" candidate.
ipsubnetAnswer(resp) ==
    IF resp.err = ""
    THEN IF (resp.status = 200 \/ resp.status = 201) /\ Len(resp.body) > 0
         THEN IF "ret_oid" \in DOMAIN resp.body[1] THEN "created" ELSE "next"
         ELSE "next"
    ELSE "error"

\* The loop leaving one candidate early.
ipsubnetLoopShort(idx, addresses) == idx < Len(addresses)

\* for i := 0; i < len(subnetAddresses); i++  (indices from 1 here)
ipsubnetLoop(idx, addresses) == idx <= Len(addresses)

\* The loop stepping over a candidate.
ipsubnetNextSkip(idx) == idx + 2

ipsubnetNext(idx) == idx + 1

\* The error returned after the loop.
ipsubnetUnable == "Unable to create IP subnet"

\* The space resolution without the terminal check.
resourceipsubnetCreate_siteNoTerminal(p) ==
    /\ pc[p] = "site"
    /\ req[p].kind = "ip"
    /\ \E siteErr \in LookupErrors :
        /\ Call(p, [op |-> "ipsiteidbyname", err |-> siteErr])
        /\ IF siteErr # ""
           THEN Return(p, siteErr)
           ELSE IF req[p].block # "" THEN Goto(p, "block") ELSE Goto(p, "find")
    /\ UNCHANGED <<inv, nextOid, req, blockInfo, subnetAddresses, i, gateway, d>>

\* ipsiteidbyname, then the terminal check when no block is named.
resourceipsubnetCreate_site(p) ==
    /\ pc[p] = "site"
    /\ req[p].kind = "ip"
    /\ \E siteErr \in LookupErrors :
        /\ Call(p, [op |-> "ipsiteidbyname", err |-> siteErr])
        /\ IF siteErr # ""
           THEN Return(p, siteErr)
           ELSE IF req[p].block # ""
                THEN Goto(p, "block")
                ELSE IF req[p].terminal
                     THEN Return(p, "Can't create a terminal IP block subnet")
                     ELSE Goto(p, "find")
    /\ UNCHANGED <<inv, nextOid, req, blockInfo, subnetAddresses, i, gateway, d>>

\* A block lookup whose error is dropped.
resourceipsubnetCreate_blockIgnore(p) ==
    /\ pc[p] = "block"
    /\ req[p].kind = "ip"
    /\ \E blockErr \in LookupErrors :
        /\ Call(p, [op |-> "ipsubnetinfobyname", err |-> blockErr])
        /\ Goto(p, "find")
        /\ blockInfo' = [blockInfo EXCEPT ![p] = [id |-> "12", level |-> 1]]
    /\ UNCHANGED <<inv, nextOid, req, subnetAddresses, i, gateway, d>>

\* ipsubnetinfobyname for the named parent block.
resourceipsubnetCreate_block(p) ==
    /\ pc[p] = "block"
    /\ req[p].kind = "ip"
    /\ \E blockErr \in LookupErrors :
        /\ Call(p, [op |-> "ipsubnetinfobyname", err |-> blockErr])
        /\ IF blockErr # ""
           THEN Return(p, blockErr) /\ UNCHANGED blockInfo
           ELSE /\ Goto(p, "find")
                /\ blockInfo' = [blockInfo EXCEPT ![p] = [id |-> "12", level |-> 1]]
    /\ UNCHANGED <<inv, nextOid, req, subnetAddresses, i, gateway, d>>

\* ipsubnetfindbysize, then the loop's entry.
resourceipsubnetCreate_find(p) ==
    /\ pc[p] = "find"
    /\ req[p].kind = "ip"
    /\ \E subnetErr \in LookupErrors :
        /\ Call(p, [op |-> "ipsubnetfindbysize", err |-> subnetErr])
        /\ IF subnetErr # ""
           THEN Return(p, subnetErr) /\ UNCHANGED <<subnetAddresses, i>>
           ELSE \E found \in CandidateLists(FreeSubnets) :
                    /\ subnetAddresses' = [subnetAddresses EXCEPT ![p] = found]
                    /\ i' = [i EXCEPT ![p] = 1]
                    /\ IF ipsubnetLoop(1, found)
                       THEN Goto(p, "add")
                       ELSE Return(p, ipsubnetUnable)
    /\ UNCHANGED <<inv, nextOid, req, blockInfo, gateway, d>>

\* One pass of the loop: the creation request for candidate i, answered resp, then
\* the handling of the answer and the loop's step.
resourceipsubnetCreate_add(p, resp) ==
    /\ pc[p] = "add"
    /\ req[p].kind = "ip"
    /\ LET hexaddr == subnetAddresses[p][i[p]]
           goffset == req[p].gateway_offset
           gw == ipsubnetGatewayVar(gateway[p], hexaddr, req[p].prefix_size, goffset)
           answer == ipsubnetAnswer(resp)
       IN  /\ \E order \in MapOrders(req[p].class_parameters) :
                Call(p, [op |-> "ip_subnet_add", add_flag |-> "new_only",
                       cand |-> hexiptoip(hexaddr), prefix |-> req[p].prefix_size,
                       level |-> IF req[p].block = "" THEN 0 ELSE blockInfo[p].level + 1,
                       gateway |-> ipsubnetClassGateway(gw, goffset),
                       class_parameters |->
                           ClassParameters(ipsubnetClassGateway(gw, goffset), order),
                       resp |-> resp])
           /\ InventoryAdd(p, "ip", hexiptoip(hexaddr), resp)
           /\ gateway' = [gateway EXCEPT ![p] = gw]
           /\ IF answer = "created"
              THEN /\ d' = [d EXCEPT ![p] =
                              [id |-> resp.body[1].ret_oid,
                               prefix |-> <<hexiptoip(hexaddr), req[p].prefix_size>>,
                               address |-> hexiptoip(hexaddr),
                               netmask |-> prefixlengthtohexip(req[p].prefix_size),
                               gateway |-> IF goffset # 0 THEN gw ELSE @.gateway]]
                   /\ Return(p, "nil")
                   /\ UNCHANGED i
              ELSE IF answer = "error"
              THEN Return(p, resp.err) /\ UNCHANGED <<d, i>>
              ELSE /\ i' = [i EXCEPT ![p] = ipsubnetNext(@)]
                   /\ IF ipsubnetLoop(ipsubnetNext(i[p]), subnetAddresses[p])
                      THEN Goto(p, "add")
                      ELSE Return(p, ipsubnetUnable)
                   /\ UNCHANGED d
    /\ UNCHANGED <<req, blockInfo, subnetAddresses>>

(***************************************************************************)
(* resourceip6subnetCreate: the IPv6 subnet create handler.                *)
(***************************************************************************)
\* The positive offset counted from the address after the block's start.
ip6subnetGatewayOffByOne(hexaddr, prefix_size, goffset) ==
    LET bigStartAddr == BigSetString16(hexaddr)
    IN  IF goffset > 0
        THEN hexip6toip6(BigIntToHexStr(BigAdd(bigStartAddr, BigNewInt(goffset + 1))))
        ELSE LET bigEndAddr == BigAdd(bigStartAddr, prefix6lengthtosize(prefix_size))
             IN  hexip6toip6(BigIntToHexStr(BigSub(bigEndAddr, BigNewInt(abs(goffset)))))

\* The block's size cut to its low 64 bits.
ip6subnetGatewayUint64(hexaddr, prefix_size, goffset) ==
    LET bigStartAddr == BigSetString16(hexaddr)
        size == prefix6lengthtosize(prefix_size)
        low == IF Len(size) > 4 THEN SubSeq(size, Len(size) - 3, Len(size)) ELSE size
    IN  IF goffset > 0
        THEN hexip6toip6(BigIntToHexStr(BigAdd(bigStartAddr, BigNewInt(goffset))))
        ELSE LET bigEndAddr == BigAdd(bigStartAddr, low)
             IN  hexip6toip6(BigIntToHexStr(BigSub(bigEndAddr, BigNewInt(abs(goffset)))))

\* The gateway of candidate hexaddr for a non-zero offset, on big integers.
ip6subnetGateway(hexaddr, prefix_size, goffset) ==
    LET bigStartAddr == BigSetString16(hexaddr)
    IN  IF goffset > 0
        THEN hexip6toip6(BigIntToHexStr(BigAdd(bigStartAddr, BigNewInt(goffset))))
        ELSE LET bigEndAddr == BigAdd(bigStartAddr, prefix6lengthtosize(prefix_size))
             IN  hexip6toip6(BigIntToHexStr(BigSub(bigEndAddr, BigNewInt(abs(goffset)))))

ip6subnetAnswer(resp) ==
    IF resp.err = ""
    THEN IF (resp.status = 200 \/ resp.status = 201) /\ Len(resp.body) > 0
         THEN IF "ret_oid" \in DOMAIN resp.body[1] THEN "created" ELSE "next"
         ELSE "next"
    ELSE "error"

ip6subnetLoop(idx, addresses) == idx <= Len(addresses)

\* The loop stepping over a candidate.
ip6subnetNextSkip(idx) == idx + 2

ip6subnetNext(idx) == idx + 1

ip6subnetUnable == "Unable to create IPv6 subnet"

\* A space resolution that goes to the search past the named block.
resourceip6subnetCreate_siteNoBlock(p) ==
    /\ pc[p] = "site"
    /\ req[p].kind = "ip6"
    /\ \E siteErr \in LookupErrors :
        /\ Call(p, [op |-> "ipsiteidbyname", err |-> siteErr])
        /\ IF siteErr # ""
           THEN Return(p, siteErr)
           ELSE IF req[p].block = "" /\ req[p].terminal
                THEN Return(p, "Can't create a terminal IPv6 block subnet")
                ELSE Goto(p, "find")
    /\ UNCHANGED <<inv, nextOid, req, blockInfo, subnetAddresses, i, gateway, d>>

\* ipsiteidbyname, then the terminal check when no block is named.
resourceip6subnetCreate_site(p) ==
    /\ pc[p] = "site"
    /\ req[p].kind = "ip6"
    /\ \E siteErr \in LookupErrors :
        /\ Call(p, [op |-> "ipsiteidbyname", err |-> siteErr])
        /\ IF siteErr # ""
           THEN Return(p, siteErr)
           ELSE IF req[p].block # ""
                THEN Goto(p, "block")
                ELSE IF req[p].terminal
                     THEN Return(p, "Can't create a terminal IPv6 block subnet")
                     ELSE Goto(p, "find")
    /\ UNCHANGED <<inv, nextOid, req, blockInfo, subnetAddresses, i, gateway, d>>

resourceip6subnetCreate_block(p) ==
    /\ pc[p] = "block"
    /\ req[p].kind = "ip6"
    /\ \E blockErr \in LookupErrors :
        /\ Call(p, [op |-> "ip6subnetinfobyname", err |-> blockErr])
        /\ IF blockErr # ""
           THEN Return(p, blockErr) /\ UNCHANGED blockInfo
           ELSE /\ Goto(p, "find")
                /\ blockInfo' = [blockInfo EXCEPT ![p] = [id |-> "12", level |-> 1]]
    /\ UNCHANGED <<inv, nextOid, req, subnetAddresses, i, gateway, d>>

resourceip6subnetCreate_find(p) ==
    /\ pc[p] = "find"
    /\ req[p].kind = "ip6"
    /\ \E subnetErr \in LookupErrors :
        /\ Call(p, [op |-> "ip6subnetfindbysize", err |-> subnetErr])
        /\ IF subnetErr # ""
           THEN Return(p, subnetErr) /\ UNCHANGED <<subnetAddresses, i>>
           ELSE \E found \in CandidateLists(FreeSubnets6) :
                    /\ subnetAddresses' = [subnetAddresses EXCEPT ![p] = found]
                    /\ i' = [i EXCEPT ![p] = 1]
                    /\ IF ip6subnetLoop(1, found)
                       THEN Goto(p, "add")
                       ELSE Return(p, ip6subnetUnable)
    /\ UNCHANGED <<inv, nextOid, req, blockInfo, gateway, d>>

resourceip6subnetCreate_add(p, resp) ==
    /\ pc[p] = "add"
    /\ req[p].kind = "ip6"
    /\ LET hexaddr == subnetAddresses[p][i[p]]
           goffset == req[p].gateway_offset
           gw == IF goffset # 0
                 THEN ip6subnetGateway(hexaddr, req[p].prefix_size, goffset)
                 ELSE gateway[p]
           answer == ip6subnetAnswer(resp)
       IN  /\ \E order \in MapOrders(req[p].class_parameters) :
                Call(p, [op |-> "ip6_subnet6_add", add_flag |-> "new_only",
                       cand |-> hexip6toip6(hexaddr), prefix |-> req[p].prefix_size,
                       level |-> 0,
                       gateway |-> IF goffset # 0 THEN gw ELSE <<>>,
                       class_parameters |->
                           ClassParameters(IF goffset # 0 THEN gw ELSE <<>>, order),
                       resp |-> resp])
           /\ InventoryAdd(p, "ip6", hexip6toip6(hexaddr), resp)
           /\ gateway' = [gateway EXCEPT ![p] = gw]
           /\ IF answer = "created"
              THEN /\ d' = [d EXCEPT ![p] =
                              [id |-> resp.body[1].ret_oid,
                               prefix |-> <<hexip6toip6(hexaddr), req[p].prefix_size>>,
                               address |-> hexip6toip6(hexaddr),
                               netmask |-> @.netmask,
                               gateway |-> IF goffset # 0 THEN gw ELSE @.gateway]]
                   /\ Return(p, "nil")
                   /\ UNCHANGED i
              ELSE IF answer = "error"
              THEN Return(p, resp.err) /\ UNCHANGED <<d, i>>
              ELSE /\ i' = [i EXCEPT ![p] = ip6subnetNext(@)]
                   /\ IF ip6subnetLoop(ip6subnetNext(i[p]), subnetAddresses[p])
                      THEN Goto(p, "add")
                      ELSE Return(p, ip6subnetUnable)
                   /\ UNCHANGED d
    /\ UNCHANGED <<req, blockInfo, subnetAddresses>>

(***************************************************************************)
(* resourcevlanCreate: the VLAN create handler.  subnetAddresses[p] holds  *)
(* its vlan_ids.                                                           *)
(***************************************************************************)
\* A reply with a success status and no object id taken for a creation failure
\* that ends the create.
vlanAnswerStrict(resp) ==
    IF resp.err = ""
    THEN IF (resp.status = 200 \/ resp.status = 201) /\ Len(resp.body) > 0
         THEN IF "ret_oid" \in DOMAIN resp.body[1] THEN "created" ELSE "error"
         ELSE "next"
    ELSE "error"

\* What the handler makes of the answer to a creation request.
vlanAnswer(resp) ==
    IF resp.err = ""
    THEN IF (resp.status = 200 \/ resp.status = 201) /\ Len(resp.body) > 0
         THEN IF "ret_oid" \in DOMAIN resp.body[1] THEN "created" ELSE "next"
         ELSE "next"
    ELSE "error"

\* The loop leaving the last identifier untried.
vlanLoopShort(idx, vlan_ids) == idx < Len(vlan_ids)

vlanLoop(idx, vlan_ids) == idx <= Len(vlan_ids)

\* The loop staying on the candidate that failed.
vlanNextStay(idx) == idx

vlanNext(idx) == idx + 1

\* The handler returning no error after the loop.
vlanUnableNil == "nil"

vlanUnable == "SOLIDServer - Unable to create vlan"

\* A search that is repeated when it fails.
resourcevlanCreate_findRetry(p) ==
    /\ pc[p] = "find"
    /\ req[p].kind = "vlan"
    /\ \E err \in LookupErrors :
        /\ Call(p, [op |-> "vlanidfindfree", err |-> err])
        /\ IF err # ""
           THEN Goto(p, "find") /\ UNCHANGED <<subnetAddresses, i>>
           ELSE \E found \in CandidateLists(FreeVlanIds) :
                    /\ subnetAddresses' = [subnetAddresses EXCEPT ![p] = found]
                    /\ i' = [i EXCEPT ![p] = 1]
                    /\ Goto(p, "add")
    /\ UNCHANGED <<inv, nextOid, req, blockInfo, gateway, d>>

\* The choice of the candidates.  request_id is a schema TypeInt, so d.Get returns
\* an int and the assertion d.Get("request_id").(string) panics: the handler ends
\* there, before any call.  Otherwise vlanidfindfree is called.
resourcevlanCreate_find(p) ==
    /\ pc[p] = "find"
    /\ req[p].kind = "vlan"
    /\ IF req[p].request_id > 0
       THEN /\ Return(p, "panic: interface conversion: interface {} is int, not string")
            /\ UNCHANGED <<trace, subnetAddresses, i>>
       ELSE \E err \in LookupErrors :
            /\ Call(p, [op |-> "vlanidfindfree", err |-> err])
            /\ IF err # ""
               THEN Return(p, err) /\ UNCHANGED <<subnetAddresses, i>>
               ELSE \E found \in CandidateLists(FreeVlanIds) :
                        /\ subnetAddresses' = [subnetAddresses EXCEPT ![p] = found]
                        /\ i' = [i EXCEPT ![p] = 1]
                        /\ IF vlanLoop(1, found)
                           THEN Goto(p, "add")
                           ELSE Return(p, vlanUnable)
    /\ UNCHANGED <<inv, nextOid, req, blockInfo, gateway, d>>

\* The ID stored as soon as a request meets a success status.
resourcevlanCreate_addEarlyId(p, resp) ==
    /\ pc[p] = "add"
    /\ req[p].kind = "vlan"
    /\ LET vlan_id == subnetAddresses[p][i[p]]
           answer == vlanAnswer(resp)
       IN  /\ Call(p, [op |-> "vlm_vlan_add", add_flag |-> "new_only",
                       cand |-> vlan_id, prefix |-> 0, level |-> 0,
                       gateway |-> <<>>, resp |-> resp])
           /\ InventoryAdd(p, "vlan", vlan_id, resp)
           /\ d' = [d EXCEPT ![p].id = IF StatusOK(resp) THEN nextOid ELSE @]
           /\ IF answer = "created"
              THEN Return(p, "nil") /\ UNCHANGED i
              ELSE IF answer = "error"
              THEN Return(p, resp.err) /\ UNCHANGED i
              ELSE /\ i' = [i EXCEPT ![p] = vlanNext(@)]
                   /\ IF vlanLoop(vlanNext(i[p]), subnetAddresses[p])
                      THEN Goto(p, "add")
                      ELSE Return(p, vlanUnable)
    /\ UNCHANGED <<req, blockInfo, subnetAddresses, gateway>>

resourcevlanCreate_add(p, resp) ==
    /\ pc[p] = "add"
    /\ req[p].kind = "vlan"
    /\ LET vlan_id == subnetAddresses[p][i[p]]
           answer == vlanAnswer(resp)
       IN  /\ Call(p, [op |-> "vlm_vlan_add", add_flag |-> "new_only",
                       cand |-> vlan_id, prefix |-> 0, level |-> 0,
                       gateway |-> <<>>, resp |-> resp])
           /\ InventoryAdd(p, "vlan", vlan_id, resp)
           /\ IF answer = "created"
              THEN /\ d' = [d EXCEPT ![p].id = resp.body[1].ret_oid]
                   /\ Return(p, "nil")
                   /\ UNCHANGED i
              ELSE IF answer = "error"
              THEN Return(p, resp.err) /\ UNCHANGED <<d, i>>
              ELSE /\ i' = [i EXCEPT ![p] = vlanNext(@)]
                   /\ IF vlanLoop(vlanNext(i[p]), subnetAddresses[p])
                      THEN Goto(p, "add")
                      ELSE Return(p, vlanUnable)
                   /\ UNCHANGED d
    /\ UNCHANGED <<req, blockInfo, subnetAddresses, gateway>>

(***************************************************************************)
(* Specifications.                                                         *)
(***************************************************************************)
\* One create call against an inventory that may answer anything.
Next ==
    \E p \in Callers :
        \/ resourceipsubnetCreate_site(p)
        \/ resourceipsubnetCreate_block(p)
        \/ resourceipsubnetCreate_find(p)
        \/ \E resp \in Replies(nextOid) : resourceipsubnetCreate_add(p, resp)
        \/ resourceip6subnetCreate_site(p)
        \/ resourceip6subnetCreate_block(p)
        \/ resourceip6subnetCreate_find(p)
        \/ \E resp \in Replies(nextOid) : resourceip6subnetCreate_add(p, resp)
        \/ resourcevlanCreate_find(p)
        \/ \E resp \in Replies(nextOid) : resourcevlanCreate_add(p, resp)

Spec == Init /\ [][Next]_vars

\* NCallers concurrent create calls of one configuration, each past its search and
\* holding the same list of NCallers candidates, against an inventory that grants
\* each candidate once.
RaceConfigurations ==
    { c \in Configurations :
        /\ c.request_id = 0
        /\ c.kind = "vlan" \/ (c.block = "blk" /\ ~c.terminal)
        /\ c.gateway_offset \in {0, 1, -1} }

RaceList(kind) ==
    LET free == IF kind = "ip" THEN FreeSubnets
                ELSE IF kind = "ip6" THEN FreeSubnets6 ELSE FreeVlanIds
    IN  SubSeq(free, 1, NCallers)

SearchOf(kind) ==
    IF kind = "ip"
    THEN << [op |-> "ipsiteidbyname", err |-> ""], [op |-> "ipsubnetinfobyname", err |-> ""],
            [op |-> "ipsubnetfindbysize", err |-> ""] >>
    ELSE IF kind = "ip6"
    THEN << [op |-> "ipsiteidbyname", err |-> ""], [op |-> "ip6subnetinfobyname", err |-> ""],
            [op |-> "ip6subnetfindbysize", err |-> ""] >>
    ELSE << [op |-> "vlanidfindfree", err |-> ""] >>

InitRace ==
    /\ inv = {}
    /\ nextOid = 1
    /\ \E c \in RaceConfigurations : req = [p \in Callers |-> c]
    /\ pc = [p \in Callers |-> "add"]
    /\ blockInfo = [p \in Callers |->
                      IF req[p].kind = "vlan" THEN NoBlockInfo ELSE [id |-> "12", level |-> 1]]
    /\ subnetAddresses = [p \in Callers |-> RaceList(req[p].kind)]
    /\ i = [p \in Callers |-> 1]
    /\ gateway = [p \in Callers |-> <<>>]
    /\ d = [p \in Callers |-> NewResourceData]
    /\ result = [p \in Callers |-> ""]
    /\ trace = [p \in Callers |-> SearchOf(req[p].kind)]

NextRace ==
    \E p \in Callers :
        \/ resourceipsubnetCreate_add(p, ExclusiveReply("ip", hexiptoip(subnetAddresses[p][i[p]])))
        \/ resourceip6subnetCreate_add(p, ExclusiveReply("ip6", hexip6toip6(subnetAddresses[p][i[p]])))
        \/ resourcevlanCreate_add(p, ExclusiveReply("vlan", subnetAddresses[p][i[p]]))

SpecRace == InitRace /\ [][NextRace]_vars

\* One create call whose every external call eventually returns (the gateway
\* offsets, which no step's enabling depends on, are cut to three).
LiveConfigurations == { c \in Configurations : c.gateway_offset \in {0, 1, -1} }

InitLive == InitOf({1}, LiveConfigurations)

SpecLive == InitLive /\ [][Next]_vars /\ WF_vars(Next)


(***************************************************************************)
(* Vocabulary of the properties.                                           *)
(***************************************************************************)
AddOps == {"ip_subnet_add", "ip6_subnet6_add", "vlm_vlan_add"}

IsAdd(call) == call.op \in AddOps

\* The reservation calls of caller p, in the order issued.
Adds(p) == SelectSeq(trace[p], IsAdd)

\* A candidate of the list as the reservation request names it.
Sent(kind, cand) ==
    IF kind = "ip" THEN hexiptoip(cand)
    ELSE IF kind = "ip6" THEN hexip6toip6(cand)
    ELSE cand

\* A conflict: an HTTP reply that is not a success.
Conflict(resp) == resp.err = "" /\ resp.status \notin {200, 201}

\* A reply the create takes as the reservation: status 200/201 and an object id.
Reserving(resp) ==
    /\ resp.err = ""
    /\ resp.status \in {200, 201}
    /\ Len(resp.body) > 0
    /\ "ret_oid" \in DOMAIN resp.body[1]

ExhaustionErrors == {"Unable to create IP subnet", "Unable to create IPv6 subnet",
                     "SOLIDServer - Unable to create vlan"}

\* Caller p holds a candidate list: its search returned one.
HasCandidates(p) == pc[p] \in {"add", "done"} /\ Len(subnetAddresses[p]) > 0

Returned(p) == pc[p] = "done"

\* The digits of a colon notation.
FlatOf[groups \in Seq(Digits)] ==
    IF Len(groups) = 0 THEN <<>> ELSE Head(groups) \o FlatOf[Tail(groups)]

Flat(groups) == FlatOf[groups]


(***************************************************************************)
(* The handlers of an existing resource: Update, Delete (with the gateway  *)
(* deletion of the subnets) and ImportState.  Each is its own invocation   *)
(* on the local state a create or an import left; pc[p] = "done" between   *)
(* invocations, and d[p].id # 0 while the local state holds the resource.  *)
(* req[p] holds what d.Get returns for the configured attributes, so the   *)
(* d.Set("gateway_offset", 0) of an import writes req[p].                  *)
(***************************************************************************)
\* Most external calls the handlers of an existing resource issue on one resource.
MaxLifecycle == 3

LifecycleOps ==
    {"ip_subnet_edit", "ip_delete", "ip_subnet_delete", "ip_block_subnet_info",
     "ip6_subnet6_edit", "ip6_address6_delete", "ip6_subnet6_delete",
     "ip6_block6_subnet6_info", "vlm_vlan_delete"}

IsLifecycle(call) == call.op \in LifecycleOps

\* A further invocation may start on the resource of p.
MayInvoke(p) ==
    /\ pc[p] = "done"
    /\ d[p].id # 0
    /\ Len(SelectSeq(trace[p], IsLifecycle)) < MaxLifecycle

\* The replies to an edit_only request on object oid.
UpdateReplies(oid) ==
    { [err |-> "timeout", status |-> 0, body |-> <<>>],
      [err |-> "", status |-> 200, body |-> <<[ret_oid |-> oid]>>],
      [err |-> "", status |-> 200, body |-> <<>>],
      [err |-> "", status |-> 400, body |-> <<[errmsg |-> "not found"]>>] }

\* The replies to a deletion request.
DeleteReplies ==
    { [err |-> "timeout", status |-> 0, body |-> <<>>],
      [err |-> "", status |-> 204, body |-> <<>>],
      [err |-> "", status |-> 200, body |-> <<[ret_oid |-> 1]>>],
      [err |-> "", status |-> 400, body |-> <<[errmsg |-> "not found"]>>],
      [err |-> "", status |-> 400, body |-> <<>>] }

\* The inventory after a deletion request for object oid answered resp.
InventoryDelete(oid, resp) ==
    IF resp.err = "" /\ resp.status \in {200, 204}
    THEN inv' = { o \in inv : o.oid # oid }
    ELSE UNCHANGED inv

\* What an Update handler makes of the answer: "updated", a transport "error", or
\* "unable".
ipsubnetUpdateAnswer(resp) ==
    IF resp.err = ""
    THEN IF (resp.status = 200 \/ resp.status = 201) /\ Len(resp.body) > 0
         THEN IF "ret_oid" \in DOMAIN resp.body[1] THEN "updated" ELSE "unable"
         ELSE "unable"
    ELSE "error"

\* add_flag of the update request.
ipsubnetUpdateFlag == "edit_only"

\* resourceipsubnetUpdate: one edit_only request on the object of the local ID.
resourceipsubnetUpdate(p, resp) ==
    /\ MayInvoke(p)
    /\ req[p].kind = "ip"
    /\ Call(p, [op |-> "ip_subnet_edit", service |-> "ip_subnet_add",
                add_flag |-> ipsubnetUpdateFlag, id |-> d[p].id,
                gateway |-> IF req[p].gateway_offset # 0 THEN d[p].gateway ELSE <<>>,
                resp |-> resp])
    /\ IF ipsubnetUpdateAnswer(resp) = "updated"
       THEN /\ d' = [d EXCEPT ![p].id = resp.body[1].ret_oid]
            /\ Return(p, "nil")
       ELSE IF ipsubnetUpdateAnswer(resp) = "error"
       THEN Return(p, resp.err) /\ UNCHANGED d
       ELSE Return(p, "Unable to update IP subnet") /\ UNCHANGED d
    /\ UNCHANGED <<inv, nextOid, req, blockInfo, subnetAddresses, i, gateway>>

\* resourceipsubnetDelete up to resourceipsubnetgatewayDelete: the request that
\* deletes the gateway address, issued when the offset of the local state is not
\* zero.  Its outcome is dropped by the caller.
resourceipsubnetgatewayDelete(p, resp) ==
    /\ MayInvoke(p)
    /\ req[p].kind = "ip"
    /\ req[p].gateway_offset # 0
    /\ Call(p, [op |-> "ip_delete", hostaddr |-> d[p].gateway, resp |-> resp])
    /\ pc' = [pc EXCEPT ![p] = "delete"]
    /\ result' = [result EXCEPT ![p] = ""]
    /\ UNCHANGED <<inv, nextOid, req, blockInfo, subnetAddresses, i, gateway, d>>

\* What a subnet Delete handler makes of the answer.
ipsubnetDeleteAnswer(resp) ==
    IF resp.err = ""
    THEN IF resp.status # 200 /\ resp.status # 204 THEN "unable" ELSE "deleted"
    ELSE "error"

\* Whether Delete goes to the subnet deletion without a gateway deletion.
ipsubnetDeleteSkipsGateway(goffset) == ~(goffset # 0)

\* resourceipsubnetDelete from the subnet deletion request on.
resourceipsubnetDelete(p, resp) ==
    /\ req[p].kind = "ip"
    /\ \/ pc[p] = "delete"
       \/ MayInvoke(p) /\ ipsubnetDeleteSkipsGateway(req[p].gateway_offset)
    /\ Call(p, [op |-> "ip_subnet_delete", id |-> d[p].id, resp |-> resp])
    /\ InventoryDelete(d[p].id, resp)
    /\ IF ipsubnetDeleteAnswer(resp) = "deleted"
       THEN /\ d' = [d EXCEPT ![p].id = 0]
            /\ Return(p, "nil")
       ELSE IF ipsubnetDeleteAnswer(resp) = "error"
       THEN Return(p, resp.err) /\ UNCHANGED d
       ELSE Return(p, "Unable to delete IP subnet") /\ UNCHANGED d
    /\ UNCHANGED <<nextOid, req, blockInfo, subnetAddresses, i, gateway>>

\* The number of times n can be halved before it reaches 1.
HalvingsOf[n \in Nat] == IF n <= 1 THEN 0 ELSE 1 + HalvingsOf[n \div 2]

Halvings(size) ==
    IF size[1] > 0 THEN 32 + HalvingsOf[size[1]]
    ELSE IF size[2] > 0 THEN 16 + HalvingsOf[size[2]]
    ELSE HalvingsOf[size[3]]

\* The size taken as a 32-bit value.
sizetoprefixlength32(size) == 32 - Halvings(<<0, size[2], size[3]>>)

\* The prefix length of a block of the given size (a Go int): 32 less the number of
\* halvings that bring the size to 1.
sizetoprefixlength(size) == 32 - Halvings(size)

\* The replies to the information request of an import, for an object at hexaddr
\* of the given size: with or without a gateway among the class parameters.
InfoReplies(hexaddr, size, gw) ==
    { [err |-> "timeout", status |-> 0, body |-> <<>>],
      [err |-> "", status |-> 200,
       body |-> <<[start_ip_addr |-> hexaddr, subnet_size |-> size,
                   class_parameters |-> [gateway |-> gw]]>>],
      [err |-> "", status |-> 200,
       body |-> <<[start_ip_addr |-> hexaddr, subnet_size |-> size,
                   class_parameters |-> [vrf |-> "none"]]>>],
      [err |-> "", status |-> 404, body |-> <<[errmsg |-> "not found"]>>],
      [err |-> "", status |-> 404, body |-> <<>>] }

\* resourceipsubnetImportState: the local state rebuilt from the inventory's
\* description of the object.  An import that fails puts no resource in the state.
resourceipsubnetImportState(p, resp) ==
    /\ pc[p] = "import"
    /\ req[p].kind = "ip"
    /\ Call(p, [op |-> "ip_block_subnet_info", id |-> d[p].id, resp |-> resp])
    /\ IF resp.err = "" /\ resp.status = 200 /\ Len(resp.body) > 0
       THEN LET buf == resp.body[1]
                address == hexiptoip(buf.start_ip_addr)
                prefix_length == sizetoprefixlength(buf.subnet_size)
            IN  /\ d' = [d EXCEPT ![p] =
                           [id |-> @.id,
                            prefix |-> <<address, prefix_length>>,
                            address |-> address,
                            netmask |-> prefixlengthtohexip(prefix_length),
                            gateway |-> IF "gateway" \in DOMAIN buf.class_parameters
                                        THEN buf.class_parameters.gateway
                                        ELSE @.gateway]]
                /\ req' = [req EXCEPT ![p].prefix_size = prefix_length,
                                      ![p].gateway_offset = 0]
                /\ Return(p, "nil")
       ELSE /\ d' = [d EXCEPT ![p].id = 0]
            /\ UNCHANGED req
            /\ Return(p, IF resp.err # "" THEN resp.err ELSE "Unable to find and import IP subnet")
    /\ UNCHANGED <<inv, nextOid, blockInfo, subnetAddresses, i, gateway>>

\* resourceip6subnetUpdate
ip6subnetUpdateAnswer(resp) ==
    IF resp.err = ""
    THEN IF (resp.status = 200 \/ resp.status = 201) /\ Len(resp.body) > 0
         THEN IF "ret_oid" \in DOMAIN resp.body[1] THEN "updated" ELSE "unable"
         ELSE "unable"
    ELSE "error"

resourceip6subnetUpdate(p, resp) ==
    /\ MayInvoke(p)
    /\ req[p].kind = "ip6"
    /\ Call(p, [op |-> "ip6_subnet6_edit", service |-> "ip6_subnet6_add",
                add_flag |-> "edit_only", id |-> d[p].id,
                gateway |-> IF req[p].gateway_offset # 0 THEN d[p].gateway ELSE <<>>,
                resp |-> resp])
    /\ IF ip6subnetUpdateAnswer(resp) = "updated"
       THEN /\ d' = [d EXCEPT ![p].id = resp.body[1].ret_oid]
            /\ Return(p, "nil")
       ELSE IF ip6subnetUpdateAnswer(resp) = "error"
       THEN Return(p, resp.err) /\ UNCHANGED d
       ELSE Return(p, "Unable to update IPv6 subnet") /\ UNCHANGED d
    /\ UNCHANGED <<inv, nextOid, req, blockInfo, subnetAddresses, i, gateway>>

\* A gateway deletion whose transport error ends the Delete.
resourceip6subnetgatewayDeleteAbort(p, resp) ==
    /\ MayInvoke(p)
    /\ req[p].kind = "ip6"
    /\ req[p].gateway_offset # 0
    /\ Call(p, [op |-> "ip6_address6_delete", hostaddr |-> d[p].gateway, resp |-> resp])
    /\ IF resp.err # ""
       THEN Return(p, resp.err)
       ELSE /\ pc' = [pc EXCEPT ![p] = "delete"]
            /\ result' = [result EXCEPT ![p] = ""]
    /\ UNCHANGED <<inv, nextOid, req, blockInfo, subnetAddresses, i, gateway, d>>

\* resourceip6subnetgatewayDelete, called by resourceip6subnetDelete
resourceip6subnetgatewayDelete(p, resp) ==
    /\ MayInvoke(p)
    /\ req[p].kind = "ip6"
    /\ req[p].gateway_offset # 0
    /\ Call(p, [op |-> "ip6_address6_delete", hostaddr |-> d[p].gateway, resp |-> resp])
    /\ pc' = [pc EXCEPT ![p] = "delete"]
    /\ result' = [result EXCEPT ![p] = ""]
    /\ UNCHANGED <<inv, nextOid, req, blockInfo, subnetAddresses, i, gateway, d>>

ip6subnetDeleteAnswer(resp) ==
    IF resp.err = ""
    THEN IF resp.status # 200 /\ resp.status # 204 THEN "unable" ELSE "deleted"
    ELSE "error"

ip6subnetDeleteSkipsGateway(goffset) == ~(goffset # 0)

\* resourceip6subnetDelete from the subnet deletion request on.
resourceip6subnetDelete(p, resp) ==
    /\ req[p].kind = "ip6"
    /\ \/ pc[p] = "delete"
       \/ MayInvoke(p) /\ ip6subnetDeleteSkipsGateway(req[p].gateway_offset)
    /\ Call(p, [op |-> "ip6_subnet6_delete", id |-> d[p].id, resp |-> resp])
    /\ InventoryDelete(d[p].id, resp)
    /\ IF ip6subnetDeleteAnswer(resp) = "deleted"
       THEN /\ d' = [d EXCEPT ![p].id = 0]
            /\ Return(p, "nil")
       ELSE IF ip6subnetDeleteAnswer(resp) = "error"
       THEN Return(p, resp.err) /\ UNCHANGED d
       ELSE Return(p, "Unable to delete IPv6 subnet") /\ UNCHANGED d
    /\ UNCHANGED <<nextOid, req, blockInfo, subnetAddresses, i, gateway>>

\* resourceip6subnetImportState: it sets neither address nor prefix nor
\* gateway_offset; the imported state holds no offset, which d.Get reads as 0.
resourceip6subnetImportState(p, resp) ==
    /\ pc[p] = "import"
    /\ req[p].kind = "ip6"
    /\ Call(p, [op |-> "ip6_block6_subnet6_info", id |-> d[p].id, resp |-> resp])
    /\ IF resp.err = "" /\ resp.status = 200 /\ Len(resp.body) > 0
       THEN LET buf == resp.body[1]
            IN  /\ d' = [d EXCEPT ![p].gateway =
                           IF "gateway" \in DOMAIN buf.class_parameters
                           THEN buf.class_parameters.gateway
                           ELSE @]
                /\ req' = [req EXCEPT ![p].gateway_offset = 0]
                /\ Return(p, "nil")
       ELSE /\ d' = [d EXCEPT ![p].id = 0]
            /\ UNCHANGED req
            /\ Return(p, IF resp.err # "" THEN resp.err ELSE "Unable to find and import IPv6 subnet")
    /\ UNCHANGED <<inv, nextOid, blockInfo, subnetAddresses, i, gateway>>

\* resourcevlanUpdate: vlan_id is a schema TypeInt, so the assertion
\* d.Get("vlan_id").(string) made while the parameters are built panics: the
\* handler ends there, before its request.
resourcevlanUpdate(p) ==
    /\ pc[p] = "done"
    /\ d[p].id # 0
    /\ req[p].kind = "vlan"
    /\ Return(p, "panic: interface conversion: interface {} is int, not string")
    /\ UNCHANGED <<inv, nextOid, req, blockInfo, subnetAddresses, i, gateway, d, trace>>

\* What the VLAN Delete handler makes of the answer: only a reply other than 204
\* that carries an error message is a failure.
vlanDeleteAnswer(resp) ==
    IF resp.err = ""
    THEN IF resp.status # 204 /\ Len(resp.body) > 0
         THEN IF "errmsg" \in DOMAIN resp.body[1] THEN "unable" ELSE "deleted"
         ELSE "deleted"
    ELSE "error"

\* resourcevlanDelete
resourcevlanDelete(p, resp) ==
    /\ MayInvoke(p)
    /\ req[p].kind = "vlan"
    /\ Call(p, [op |-> "vlm_vlan_delete", id |-> d[p].id, resp |-> resp])
    /\ InventoryDelete(d[p].id, resp)
    /\ IF vlanDeleteAnswer(resp) = "deleted"
       THEN /\ d' = [d EXCEPT ![p].id = 0]
            /\ Return(p, "nil")
       ELSE IF vlanDeleteAnswer(resp) = "error"
       THEN Return(p, resp.err) /\ UNCHANGED d
       ELSE Return(p, "SOLIDServer - Unable to delete vlan") /\ UNCHANGED d
    /\ UNCHANGED <<nextOid, req, blockInfo, subnetAddresses, i, gateway>>

\* The life of one resource: created by a create past its search (a list of one or
\* two candidates) or brought in by an import of the inventory's object 1, then
\* updated and deleted.
LifecycleConfigurations ==
    { c \in Configurations :
        /\ c.request_id = 0
        /\ c.kind = "vlan" \/ (c.block = "blk" /\ ~c.terminal /\ c.prefix_size \in {24, 64})
        /\ c.gateway_offset \in {0, 1} }

\* The object an import finds: the first free block, with gateway 10.0.0.1 or
\* 2001:db8::1 when it has one.
ImportedSubnet(kind) == IF kind = "ip" THEN FreeSubnets[1] ELSE FreeSubnets6[1]

ImportedGateway(kind) ==
    IF kind = "ip" THEN <<10, 0, 0, 1>>
    ELSE hexip6toip6(SubSeq(FreeSubnets6[1], 1, 31) \o <<1>>)

InitLifecycle ==
    \E c \in LifecycleConfigurations, start \in {"add", "import"}, n \in 1..2 :
        /\ start = "import" => (c.kind # "vlan" /\ n = 1)
        /\ req = [p \in Callers |-> c]
        /\ pc = [p \in Callers |-> IF p = 1 THEN start ELSE "off"]
        /\ inv = IF start = "import"
                 THEN {[kind |-> c.kind, cand |-> Sent(c.kind, ImportedSubnet(c.kind)),
                        owner |-> 0, oid |-> 1]}
                 ELSE {}
        /\ nextOid = IF start = "import" THEN 2 ELSE 1
        /\ blockInfo = [p \in Callers |->
                          IF c.kind = "vlan" THEN NoBlockInfo ELSE [id |-> "12", level |-> 1]]
        /\ subnetAddresses = [p \in Callers |->
                                IF start = "add" THEN SubSeq(RaceList(c.kind), 1, n) ELSE <<>>]
        /\ i = [p \in Callers |-> IF start = "add" THEN 1 ELSE 0]
        /\ gateway = [p \in Callers |-> <<>>]
        /\ d = [p \in Callers |->
                  IF start = "import" /\ p = 1 THEN [NewResourceData EXCEPT !.id = 1]
                  ELSE NewResourceData]
        /\ result = [p \in Callers |-> ""]
        /\ trace = [p \in Callers |-> IF start = "add" THEN SearchOf(c.kind) ELSE <<>>]

NextLifecycle ==
    \E p \in Callers :
        \/ \E resp \in Replies(nextOid) : resourceipsubnetCreate_add(p, resp)
        \/ \E resp \in Replies(nextOid) : resourceip6subnetCreate_add(p, resp)
        \/ \E resp \in Replies(nextOid) : resourcevlanCreate_add(p, resp)
        \/ \E resp \in InfoReplies(ImportedSubnet("ip"), prefixlengthtosize(24),
                                   ImportedGateway("ip")) :
               resourceipsubnetImportState(p, resp)
        \/ \E resp \in InfoReplies(ImportedSubnet("ip6"), prefix6lengthtosize(64),
                                   ImportedGateway("ip6")) :
               resourceip6subnetImportState(p, resp)
        \/ \E resp \in UpdateReplies(d[p].id) : resourceipsubnetUpdate(p, resp)
        \/ \E resp \in UpdateReplies(d[p].id) : resourceip6subnetUpdate(p, resp)
        \/ resourcevlanUpdate(p)
        \/ \E resp \in DeleteReplies : resourceipsubnetgatewayDelete(p, resp)
        \/ \E resp \in DeleteReplies : resourceip6subnetgatewayDelete(p, resp)
        \/ \E resp \in DeleteReplies : resourceipsubnetDelete(p, resp)
        \/ \E resp \in DeleteReplies : resourceip6subnetDelete(p, resp)
        \/ \E resp \in DeleteReplies : resourcevlanDelete(p, resp)

SpecLifecycle == InitLifecycle /\ [][NextLifecycle]_vars


(***************************************************************************)
(* resourceip6poolCreate: the IPv6 pool create handler, which resolves the *)
(* space and the parent subnet like the subnet creates and then issues one *)
(* creation request.                                                       *)
(***************************************************************************)
\* A four-digit group read as a number is its digits without the leading zeros;
\* written back with %04x it has four digits again.
GroupsToHexOf[ip \in Seq(Digits)] ==
    IF Len(ip) = 0 THEN <<>>
    ELSE NumPad(NumStrip(Head(ip)), 4) \o GroupsToHexOf[Tail(ip)]

\* Colon notation to the wire form.
ip6tohexip6(ip) == GroupsToHexOf[ip]

\* The pool of the first free IPv6 block: 2001:db8:: to 2001:db8::ffff.
PoolStart == hexip6toip6(FreeSubnets6[1])

PoolEnd == hexip6toip6(SubSeq(FreeSubnets6[1], 1, 28) \o <<15, 15, 15, 15>>)

PoolConfigurations ==
    [kind : {"pool6"}, prefix_size : {0}, gateway_offset : {0},
     request_id : {0}, block : {""}, terminal : {FALSE},
     class_parameters : {{}}, start : {PoolStart}, end : {PoolEnd}]

\* ipsiteidbyname
resourceip6poolCreate_site(p) ==
    /\ pc[p] = "site"
    /\ req[p].kind = "pool6"
    /\ \E siteErr \in LookupErrors :
        /\ Call(p, [op |-> "ipsiteidbyname", err |-> siteErr])
        /\ IF siteErr # "" THEN Return(p, siteErr) ELSE Goto(p, "subnet")
    /\ UNCHANGED <<inv, nextOid, req, blockInfo, subnetAddresses, i, gateway, d>>

\* ip6subnetinfobyname for the parent subnet
resourceip6poolCreate_subnet(p) ==
    /\ pc[p] = "subnet"
    /\ req[p].kind = "pool6"
    /\ \E subnetErr \in LookupErrors :
        /\ Call(p, [op |-> "ip6subnetinfobyname", err |-> subnetErr])
        /\ IF subnetErr # "" THEN Return(p, subnetErr) ELSE Goto(p, "pooladd")
    /\ UNCHANGED <<inv, nextOid, req, blockInfo, subnetAddresses, i, gateway, d>>

\* The creation request and the handling of its answer.
resourceip6poolCreate_add(p, resp) ==
    /\ pc[p] = "pooladd"
    /\ req[p].kind = "pool6"
    /\ Call(p, [op |-> "ip6_pool6_add", add_flag |-> "new_only",
                start_addr |-> ip6tohexip6(req[p].start),
                end_addr |-> ip6tohexip6(req[p].end), resp |-> resp])
    /\ IF resp.err = ""
       THEN IF (resp.status = 200 \/ resp.status = 201) /\ Len(resp.body) > 0
                /\ "ret_oid" \in DOMAIN resp.body[1]
            THEN /\ d' = [d EXCEPT ![p].id = resp.body[1].ret_oid,
                                   ![p].prefix = <<hexip6toip6(FreeSubnets6[1]), 64>>]
                 /\ Return(p, "nil")
            ELSE Return(p, "SOLIDServer - Unable to create IPv6 pool") /\ UNCHANGED d
       ELSE Return(p, resp.err) /\ UNCHANGED d
    /\ UNCHANGED <<inv, nextOid, req, blockInfo, subnetAddresses, i, gateway>>

\* One create call of a subnet, a VLAN or a pool.
InitLookup == InitOf({1}, Configurations \cup PoolConfigurations)

NextLookup ==
    \/ Next
    \/ \E p \in Callers :
        \/ resourceip6poolCreate_site(p)
        \/ resourceip6poolCreate_subnet(p)
        \/ \E resp \in Replies(nextOid) : resourceip6poolCreate_add(p, resp)

SpecLookup == InitLookup /\ [][NextLookup]_vars


(***************************************************************************)
(* An IPv4 subnet create (caller 1) and a VLAN create (caller 2) side by   *)
(* side, each at the head of its loop with a list of the same length, each *)
(* answered by an inventory that may reply anything.                       *)
(***************************************************************************)
PairConfiguration(p) ==
    IF p = 1
    THEN [kind |-> "ip", prefix_size |-> 24, gateway_offset |-> 0,
          request_id |-> 0, block |-> "blk", terminal |-> FALSE,
          class_parameters |-> {}]
    ELSE [kind |-> "vlan", prefix_size |-> 0, gateway_offset |-> 0,
          request_id |-> 0, block |-> "", terminal |-> FALSE,
          class_parameters |-> {}]

InitPair ==
    \E n \in 1..MaxCands :
        /\ inv = {}
        /\ nextOid = 1
        /\ req = [p \in Callers |-> PairConfiguration(p)]
        /\ pc = [p \in Callers |-> IF p \in {1, 2} THEN "add" ELSE "off"]
        /\ blockInfo = [p \in Callers |->
                          IF p = 1 THEN [id |-> "12", level |-> 1] ELSE NoBlockInfo]
        /\ subnetAddresses = [p \in Callers |->
                                IF p = 1 THEN SubSeq(FreeSubnets, 1, n)
                                ELSE IF p = 2 THEN SubSeq(FreeVlanIds, 1, n) ELSE <<>>]
        /\ i = [p \in Callers |-> IF p \in {1, 2} THEN 1 ELSE 0]
        /\ gateway = [p \in Callers |-> <<>>]
        /\ d = [p \in Callers |-> NewResourceData]
        /\ result = [p \in Callers |-> ""]
        /\ trace = [p \in Callers |-> IF p \in {1, 2} THEN SearchOf(req[p].kind) ELSE <<>>]

\* One reply of each kind the handlers tell apart: a transport error, a
\* reservation, a success status without an object id, a refusal.
PairReplies(oid) ==
    { r \in Replies(oid) :
        \/ r.err # ""
        \/ r.status = 201
        \/ r.status = 200 /\ Len(r.body) > 0 /\ "errmsg" \in DOMAIN r.body[1]
        \/ r.status = 400 /\ Len(r.body) > 0 }

NextPair ==
    \E p \in Callers :
        \/ \E resp \in PairReplies(nextOid) : resourceipsubnetCreate_add(p, resp)
        \/ \E resp \in PairReplies(nextOid) : resourcevlanCreate_add(p, resp)

SpecPair == InitPair /\ [][NextPair]_vars


(***************************************************************************)
(* C1 - Exhaustion.  A create that holds a candidate list of length k and  *)
(* whose every reservation attempt is answered with a conflict never       *)
(* issues more than k reservation calls, and returns only after exactly k  *)
(* calls, one per candidate in list order, with the exhaustion error and   *)
(* no local ID.                                                            *)
(***************************************************************************)
AllConflicts(p) == \A k \in 1..Len(Adds(p)) : Conflict(Adds(p)[k].resp)

C1_Exhaustion ==
    \A p \in Callers :
        (HasCandidates(p) /\ AllConflicts(p)) =>
            /\ Len(Adds(p)) <= Len(subnetAddresses[p])
            /\ Returned(p) =>
                /\ Len(Adds(p)) = Len(subnetAddresses[p])
                /\ \A k \in 1..Len(Adds(p)) :
                       Adds(p)[k].cand = Sent(req[p].kind, subnetAddresses[p][k])
                /\ result[p] \in ExhaustionErrors
                /\ d[p].id = 0

\* A create that returned after three conflicts on a list of three.
C1_Witness ==
    \E p \in Callers :
        /\ Returned(p)
        /\ Len(subnetAddresses[p]) = 3
        /\ Len(Adds(p)) = 3
        /\ AllConflicts(p)
        /\ result[p] \in ExhaustionErrors

(***************************************************************************)
(* C2 - Race tolerance (under SpecRace).  With n concurrent creates on the *)
(* same list of n candidates and an inventory that grants each candidate   *)
(* once: no create returns an error, a create that has not returned has a  *)
(* candidate left to try, the candidates recorded by two creates differ,   *)
(* and the inventory holds no candidate twice.                             *)
(***************************************************************************)
\* The candidate a returned create reserved: the one of its last request.
ReservedBy(p) == Adds(p)[Len(Adds(p))].cand

C2_RaceTolerance ==
    /\ \A p \in Callers : Returned(p) => result[p] = "nil" /\ d[p].id # 0
    /\ \A p \in Callers :
           ~Returned(p) => pc[p] = "add" /\ i[p] \in 1..Len(subnetAddresses[p])
    /\ \A p, q \in Callers :
           (p # q /\ Returned(p) /\ Returned(q)) =>
               /\ ReservedBy(p) # ReservedBy(q)
               /\ d[p].id # d[q].id
               /\ req[p].kind # "vlan" => d[p].address # d[q].address
    /\ \A o1, o2 \in inv : (o1.kind = o2.kind /\ o1.cand = o2.cand) => o1 = o2
    /\ \A p \in Callers :
           Returned(p) => \E o \in inv : o.owner = p /\ o.cand = ReservedBy(p) /\ o.oid = d[p].id

\* Every create has returned, and one of them lost a race on the way.
C2_Witness ==
    /\ \A p \in Callers : Returned(p) /\ result[p] = "nil"
    /\ \E p \in Callers : Len(Adds(p)) = NCallers
    /\ Cardinality(inv) = NCallers

(***************************************************************************)
(* C3 - Fatal abort.  A reservation attempt that fails with a transport    *)
(* error is the last call of the create: the create has returned that same *)
(* error, whatever candidates remain.                                      *)
(***************************************************************************)
C3_FatalAbort ==
    \A p \in Callers :
        \A k \in 1..Len(Adds(p)) :
            Adds(p)[k].resp.err # "" =>
                /\ k = Len(Adds(p))
                /\ Returned(p)
                /\ result[p] = Adds(p)[k].resp.err
                /\ d[p].id = 0

\* A transport error on the first of three candidates.
C3_Witness ==
    \E p \in Callers :
        /\ Len(subnetAddresses[p]) = 3
        /\ Len(Adds(p)) = 1
        /\ Adds(p)[1].resp.err # ""
        /\ Returned(p)

(***************************************************************************)
(* C4 - Conflict advances to the next candidate.  The reservation calls    *)
(* name the candidates in list order, each once; the create does not       *)
(* return on a conflict while a later candidate exists; and a create that  *)
(* succeeded recorded the candidate of its last call, which is the first   *)
(* call answered with a reservation (status 200/201 and an object id).     *)
(***************************************************************************)
C4_ConflictAdvances ==
    \A p \in Callers :
        /\ Len(Adds(p)) <= Len(subnetAddresses[p])
        /\ \A k \in 1..Len(Adds(p)) :
               /\ Adds(p)[k].cand = Sent(req[p].kind, subnetAddresses[p][k])
               /\ (Conflict(Adds(p)[k].resp) /\ k < Len(subnetAddresses[p])) =>
                      \/ Len(Adds(p)) > k
                      \/ ~Returned(p) /\ i[p] = k + 1
               /\ (Reserving(Adds(p)[k].resp)) =>
                      /\ k = Len(Adds(p))
                      /\ result[p] = "nil"
                      /\ req[p].kind # "vlan" => d[p].address = Adds(p)[k].cand
        /\ result[p] = "nil" => Reserving(Adds(p)[Len(Adds(p))].resp)

\* A success on the third candidate after two conflicts.
C4_Witness ==
    \E p \in Callers :
        /\ result[p] = "nil"
        /\ Len(Adds(p)) = 3
        /\ Conflict(Adds(p)[1].resp)
        /\ Conflict(Adds(p)[2].resp)
        /\ req[p].kind = "ip6"

(***************************************************************************)
(* C5 - No partial success.  A create that returned success made, in this  *)
(* invocation, a reservation call answered with status 200/201 and an      *)
(* object id; the local ID is that id and the recorded address is the      *)
(* candidate of that call.                                                 *)
(***************************************************************************)
C5_NoPartialSuccess ==
    \A p \in Callers :
        (Returned(p) /\ result[p] = "nil") =>
            \E k \in 1..Len(Adds(p)) :
                /\ Adds(p)[k].resp.err = ""
                /\ Adds(p)[k].resp.status \in {200, 201}
                /\ Len(Adds(p)[k].resp.body) > 0
                /\ "ret_oid" \in DOMAIN Adds(p)[k].resp.body[1]
                /\ d[p].id = Adds(p)[k].resp.body[1].ret_oid
                /\ d[p].id # 0
                /\ req[p].kind # "vlan" =>
                       /\ d[p].address = Adds(p)[k].cand
                       /\ d[p].prefix = <<Adds(p)[k].cand, req[p].prefix_size>>

\* A VLAN create that returned success on its second candidate.
C5_Witness ==
    \E p \in Callers :
        /\ Returned(p)
        /\ result[p] = "nil"
        /\ req[p].kind = "vlan"
        /\ Len(Adds(p)) = 2


(***************************************************************************)
(* C6 - Termination (under SpecLive: every external call returns).  Every  *)
(* create eventually returns; it returns once, either with success and a   *)
(* local ID or with an error (a run-time panic included) and no local ID;  *)
(* the loop index never decreases and no candidate is requested twice.     *)
(***************************************************************************)
Reserved(p) == result[p] = "nil" /\ d[p].id # 0

Failed(p) == result[p] \notin {"", "nil"} /\ d[p].id = 0

C6_Termination ==
    /\ \A p \in Callers : (pc[p] # "off") ~> Returned(p)
    /\ [](\A p \in Callers :
            /\ Returned(p) => (Reserved(p) /\ ~Failed(p)) \/ (Failed(p) /\ ~Reserved(p))
            /\ \A j, k \in 1..Len(Adds(p)) : j # k => Adds(p)[j].cand # Adds(p)[k].cand)
    /\ [][\A p \in Callers :
            /\ i'[p] >= i[p]
            /\ Returned(p) => (result'[p] = result[p] /\ d'[p] = d[p] /\ trace'[p] = trace[p])]_vars

\* A create that returned after trying every candidate of a list of three.
C6_Witness ==
    \E p \in Callers :
        /\ Returned(p)
        /\ Len(subnetAddresses[p]) = 3
        /\ Len(Adds(p)) = 3

(***************************************************************************)
(* C7 - VLAN explicit identifier.  A VLAN create with request_id > 0 that  *)
(* has returned did not call the free-identifier search and made exactly   *)
(* one reservation attempt, for the identifier request_id; if that attempt *)
(* met a conflict it returned the exhaustion error.                        *)
(***************************************************************************)
IsSearch(call) == call.op = "vlanidfindfree"

C7_ExplicitId ==
    \A p \in Callers :
        (req[p].kind = "vlan" /\ req[p].request_id > 0 /\ Returned(p)) =>
            /\ Len(SelectSeq(trace[p], IsSearch)) = 0
            /\ Len(Adds(p)) = 1
            /\ Adds(p)[1].cand = NumOfNat(req[p].request_id, 10)
            /\ Conflict(Adds(p)[1].resp) => result[p] \in ExhaustionErrors

(***************************************************************************)
(* Arithmetic of the gateway properties, on digit sequences: IPv4 values   *)
(* in base 256 (the octets of the dotted notation), IPv6 values in base 16 *)
(* (the digits of the colon notation).                                     *)
(***************************************************************************)
\* The last n digits.
Low(a, n) == SubSeq(NumPad(a, n), Len(NumPad(a, n)) - n + 1, Len(NumPad(a, n)))

\* A value as an address of n digits; a value too large is no address.
AsAddress(a, n) == NumPad(NumStrip(a), n)

\* The size of an IPv4 block, 2^(32 - prefix).
BlockSize(prefix) == NumPow2(32 - prefix, 8)

\* The size of an IPv6 block, 2^(128 - prefix).
BlockSize6(prefix) == NumPow2(128 - prefix, 4)

\* The reservation calls of the IPv4 and of the IPv6 create.
IsAdd4(call) == call.op = "ip_subnet_add"

IsAdd6(call) == call.op = "ip6_subnet6_add"

\* The gateway a returned, successful create stored is the one of its last call.
StoredGatewayIsSent(p) ==
    (Returned(p) /\ result[p] = "nil" /\ req[p].gateway_offset # 0) =>
        d[p].gateway = Adds(p)[Len(Adds(p))].gateway

InBlock(gw, start, size, B) ==
    /\ NumLessEq(start, gw)
    /\ NumLessEq(NumAdd(gw, <<1>>, B), NumAdd(start, size, B))

C9_OutOfRangeRejected ==
    \A p \in Callers :
        req[p].gateway_offset # 0 =>
            \A k \in 1..Len(Adds(p)) :
                /\ IsAdd4(Adds(p)[k]) =>
                       InBlock(Adds(p)[k].gateway, Adds(p)[k].cand,
                               BlockSize(Adds(p)[k].prefix), 256)
                /\ IsAdd6(Adds(p)[k]) =>
                       InBlock(Flat(Adds(p)[k].gateway), Flat(Adds(p)[k].cand),
                               BlockSize6(Adds(p)[k].prefix), 16)

(***************************************************************************)
(* C10 - Positive gateway offset.  For the IPv4 and the IPv6 create, a     *)
(* gateway_offset = m > 0 smaller than the block size sends (and on        *)
(* success stores) the gateway s + m for the candidate s of each           *)
(* reservation call.                                                       *)
(***************************************************************************)
C10_PositiveOffset ==
    \A p \in Callers :
        req[p].gateway_offset > 0 =>
            /\ \A k \in 1..Len(Adds(p)) :
                /\ (/\ IsAdd4(Adds(p)[k])
                    /\ NumLessEq(NumOfNat(req[p].gateway_offset + 1, 256),
                                 BlockSize(Adds(p)[k].prefix))) =>
                       Adds(p)[k].gateway =
                           AsAddress(NumAdd(Adds(p)[k].cand,
                                            NumOfNat(req[p].gateway_offset, 256), 256), 4)
                /\ (/\ IsAdd6(Adds(p)[k])
                    /\ NumLessEq(NumOfNat(req[p].gateway_offset + 1, 16),
                                 BlockSize6(Adds(p)[k].prefix))) =>
                       Flat(Adds(p)[k].gateway) =
                           AsAddress(NumAdd(Flat(Adds(p)[k].cand),
                                            NumOfNat(req[p].gateway_offset, 16), 16), 32)
            /\ StoredGatewayIsSent(p)

\* 10.0.0.0/24 reserved with offset 5: the gateway stored is 10.0.0.5.
C10_Witness ==
    \E p \in Callers :
        /\ req[p].kind = "ip"
        /\ req[p].gateway_offset = 5
        /\ req[p].prefix_size = 24
        /\ result[p] = "nil"
        /\ d[p].address = <<10, 0, 0, 0>>
        /\ d[p].gateway = <<10, 0, 0, 5>>

(***************************************************************************)
(* C11 - No silent 32-bit wrap.  No IPv4 reservation call carries a        *)
(* gateway whose exact value left [0, 2^32 - 1]: for a positive offset m   *)
(* the sum s + m fits 32 bits; for a negative offset -m the value          *)
(* s + size - m is not negative and fits 32 bits.                          *)
(***************************************************************************)
Fits32(a) == Len(NumStrip(a)) <= 4

C11_NoSilentWrap ==
    \A p \in Callers :
        \A k \in 1..Len(Adds(p)) :
            (IsAdd4(Adds(p)[k]) /\ req[p].gateway_offset # 0) =>
                LET s == Adds(p)[k].cand
                    m == NumOfNat(abs(req[p].gateway_offset), 256)
                    end == NumAdd(s, BlockSize(Adds(p)[k].prefix), 256)
                IN  IF req[p].gateway_offset > 0
                    THEN Fits32(NumAdd(s, m, 256))
                    ELSE NumLessEq(m, end) /\ Fits32(NumSub(end, m, 256))

(***************************************************************************)
(* C12 - Zero offset means no gateway.  With gateway_offset = 0 no         *)
(* reservation call of a subnet create carries a gateway class parameter   *)
(* and the create leaves the gateway attribute of the local state unset,   *)
(* also when it succeeds.                                                  *)
(***************************************************************************)
C12_ZeroOffset ==
    \A p \in Callers :
        (req[p].kind \in {"ip", "ip6"} /\ req[p].gateway_offset = 0) =>
            /\ \A k \in 1..Len(Adds(p)) : Adds(p)[k].gateway = <<>>
            /\ d[p].gateway = <<>>

\* An IPv4 create with offset zero that succeeded on its second candidate.
C12_Witness ==
    \E p \in Callers :
        /\ req[p].kind = "ip"
        /\ req[p].gateway_offset = 0
        /\ Returned(p)
        /\ result[p] = "nil"
        /\ Len(Adds(p)) = 2
        /\ d[p].address # <<>>
        /\ d[p].gateway = <<>>

(***************************************************************************)
(* C13 - The gateway belongs to the reserved candidate.  After a           *)
(* successful subnet create with a non-zero offset, the gateway stored is  *)
(* the one sent with the successful (last) reservation call, and, for an   *)
(* offset inside the block, it lies in the block of the recorded address   *)
(* and in the block of no earlier candidate.                               *)
(***************************************************************************)
\* Offset m designates an address of a block of the given size: 0 < m < size for a
\* positive offset; -m with m < size (IPv4, counted from the address before the
\* last) or m <= size (IPv6, counted from the end) for a negative one.
OffsetInside(kind, prefix, goffset) ==
    IF kind = "ip"
    THEN NumLessEq(NumOfNat(abs(goffset) + 1, 256), BlockSize(prefix))
    ELSE NumLessEq(NumOfNat(abs(goffset) + (IF goffset > 0 THEN 1 ELSE 0), 16), BlockSize6(prefix))

GatewayInBlockOf(kind, gw, cand, prefix) ==
    IF kind = "ip"
    THEN InBlock(gw, cand, BlockSize(prefix), 256)
    ELSE InBlock(Flat(gw), Flat(cand), BlockSize6(prefix), 16)

C13_GatewayOfReserved ==
    \A p \in Callers :
        (/\ req[p].kind \in {"ip", "ip6"}
         /\ req[p].gateway_offset # 0
         /\ Returned(p)
         /\ result[p] = "nil") =>
            LET n == Len(Adds(p))
            IN  /\ d[p].gateway = Adds(p)[n].gateway
                /\ d[p].address = Adds(p)[n].cand
                /\ OffsetInside(req[p].kind, req[p].prefix_size, req[p].gateway_offset) =>
                       /\ GatewayInBlockOf(req[p].kind, d[p].gateway, d[p].address,
                                           req[p].prefix_size)
                       /\ \A k \in 1..(n - 1) :
                              ~GatewayInBlockOf(req[p].kind, d[p].gateway, Adds(p)[k].cand,
                                                req[p].prefix_size)

\* 10.0.2.0/24 reserved with offset 5 after two conflicts: the gateway is 10.0.2.5.
C13_Witness ==
    \E p \in Callers :
        /\ req[p].kind = "ip"
        /\ req[p].gateway_offset = 5
        /\ Returned(p)
        /\ result[p] = "nil"
        /\ Len(Adds(p)) = 3
        /\ Conflict(Adds(p)[1].resp)
        /\ Conflict(Adds(p)[2].resp)
        /\ d[p].address = <<10, 0, 2, 0>>
        /\ d[p].gateway = <<10, 0, 2, 5>>

(***************************************************************************)
(* C14 - Delete order (under SpecLifecycle).  Every subnet deletion        *)
(* request issued while the local state holds a gateway, whether a create  *)
(* or an import stored it, comes right after the deletion request for that *)
(* gateway address.                                                        *)
(***************************************************************************)
IsSubnetDelete(call) == call.op \in {"ip_subnet_delete", "ip6_subnet6_delete"}

IsGatewayDelete(call) == call.op \in {"ip_delete", "ip6_address6_delete"}

IsImport(call) == call.op \in {"ip_block_subnet_info", "ip6_block6_subnet6_info"}

C14_DeleteOrder ==
    \A p \in Callers :
        \A k \in 1..Len(trace[p]) :
            (IsSubnetDelete(trace[p][k]) /\ d[p].gateway # <<>>) =>
                /\ k > 1
                /\ IsGatewayDelete(trace[p][k - 1])
                /\ trace[p][k - 1].hostaddr = d[p].gateway

(***************************************************************************)
(* C15 - Lookup failure is surfaced immediately (under SpecLookup).  A     *)
(* failed resolution of the space, or of the named parent block or subnet, *)
(* is the last call of the create: the create has returned that error,     *)
(* with no search, no reservation call and no second lookup after it.      *)
(***************************************************************************)
IsLookup(call) == call.op \in {"ipsiteidbyname", "ipsubnetinfobyname", "ip6subnetinfobyname"}

C15_LookupFailure ==
    \A p \in Callers :
        \A k \in 1..Len(trace[p]) :
            (IsLookup(trace[p][k]) /\ trace[p][k].err # "") =>
                /\ k = Len(trace[p])
                /\ Returned(p)
                /\ result[p] = trace[p][k].err
                /\ d[p].id = 0

\* An IPv4 create whose space resolved and whose parent block did not.
C15_Witness ==
    \E p \in Callers :
        /\ req[p].kind = "ip"
        /\ Len(trace[p]) = 2
        /\ trace[p][1].op = "ipsiteidbyname"
        /\ trace[p][2].op = "ipsubnetinfobyname"
        /\ trace[p][2].err # ""
        /\ Returned(p)

(***************************************************************************)
(* C16 - Search failure is surfaced.  A candidate search that returned an  *)
(* error is the last call of the create and the only search: the create    *)
(* has returned that error with no reservation call.                       *)
(***************************************************************************)
IsFind(call) == call.op \in {"ipsubnetfindbysize", "ip6subnetfindbysize", "vlanidfindfree"}

C16_SearchFailure ==
    \A p \in Callers :
        \A k \in 1..Len(trace[p]) :
            (IsFind(trace[p][k]) /\ trace[p][k].err # "") =>
                /\ k = Len(trace[p])
                /\ Len(SelectSeq(trace[p], IsFind)) = 1
                /\ Len(Adds(p)) = 0
                /\ Returned(p)
                /\ result[p] = trace[p][k].err
                /\ d[p].id = 0

\* A VLAN create whose search failed.
C16_Witness ==
    \E p \in Callers :
        /\ req[p].kind = "vlan"
        /\ Len(trace[p]) = 1
        /\ trace[p][1].op = "vlanidfindfree"
        /\ trace[p][1].err # ""
        /\ Returned(p)
        /\ result[p] = trace[p][1].err

(***************************************************************************)
(* C17 - Update does not re-allocate (under SpecLifecycle).  Every step    *)
(* of an Update handler of a subnet or a VLAN issues exactly one request,  *)
(* an edit_only request for the object of the local ID, and leaves the     *)
(* address, prefix and gateway of the local state unchanged.               *)
(***************************************************************************)
UpdateStep(p) ==
    \/ \E resp \in UpdateReplies(d[p].id) : resourceipsubnetUpdate(p, resp)
    \/ \E resp \in UpdateReplies(d[p].id) : resourceip6subnetUpdate(p, resp)
    \/ resourcevlanUpdate(p)

EditOnlyStep(p) ==
    /\ Len(trace'[p]) = Len(trace[p]) + 1
    /\ SubSeq(trace'[p], 1, Len(trace[p])) = trace[p]
    /\ LET call == trace'[p][Len(trace'[p])]
       IN  /\ call.op \in {"ip_subnet_edit", "ip6_subnet6_edit", "vlm_vlan_edit"}
           /\ call.add_flag = "edit_only"
           /\ call.id = d[p].id
    /\ d'[p].address = d[p].address
    /\ d'[p].prefix = d[p].prefix
    /\ d'[p].gateway = d[p].gateway

C17_UpdateInPlace == [][\A p \in Callers : UpdateStep(p) => EditOnlyStep(p)]_vars

(***************************************************************************)
(* C18 - Call sequence.  The external calls of a subnet create are, in     *)
(* this order: the space resolution (first, once), the parent block lookup *)
(* (second, exactly when a block is named), the candidate search (next,    *)
(* once), and then only reservation calls.                                 *)
(***************************************************************************)
\* The position of the candidate search among the calls of create p.
SearchAt(p) == IF req[p].block # "" THEN 3 ELSE 2

C18_CallSequence ==
    \A p \in Callers :
        req[p].kind \in {"ip", "ip6"} =>
            \A k \in 1..Len(trace[p]) :
                LET op == trace[p][k].op
                IN  /\ k = 1 <=> op = "ipsiteidbyname"
                    /\ (k = 2 /\ req[p].block # "") <=>
                           op \in {"ipsubnetinfobyname", "ip6subnetinfobyname"}
                    /\ k = SearchAt(p) <=> IsFind(trace[p][k])
                    /\ k > SearchAt(p) <=> IsAdd(trace[p][k])

\* An IPv6 create in a named block whose three candidates all conflicted: six
\* calls, one of them the search.
C18_Witness ==
    \E p \in Callers :
        /\ req[p].kind = "ip6"
        /\ req[p].block # ""
        /\ Returned(p)
        /\ Len(trace[p]) = 6
        /\ Len(Adds(p)) = 3
        /\ AllConflicts(p)
        /\ Len(SelectSeq(trace[p], IsFind)) = 1

(***************************************************************************)
(* C19 - VLAN create and IPv4 subnet create are the same reservation state *)
(* machine (under SpecPair).  Given lists of the same length and the same  *)
(* replies so far, the two creates have made the same number of attempts,  *)
(* on the candidates of the same positions, and are at the same point:     *)
(* both trying the same position, or both returned with the same outcome   *)
(* (reserved, exhaustion, or the same transport error).  A create that     *)
(* returned after n replies made no attempt the other, given the same n    *)
(* replies, has not made.                                                  *)
(***************************************************************************)
\* Two replies alike but for the object id.
SameReply(r1, r2) ==
    /\ r1.err = r2.err
    /\ r1.status = r2.status
    /\ Len(r1.body) = Len(r2.body)
    /\ Len(r1.body) > 0 => DOMAIN r1.body[1] = DOMAIN r2.body[1]

\* The first n replies to p and to q are alike.
SameReplies(p, q, n) ==
    \A k \in 1..n : SameReply(Adds(p)[k].resp, Adds(q)[k].resp)

\* The terminal outcome of a create: "" while it runs.
Outcome(p) ==
    IF ~Returned(p) THEN ""
    ELSE IF result[p] = "nil" THEN "Reserved"
    ELSE IF result[p] \in ExhaustionErrors THEN "AllocationExhausted"
    ELSE result[p]

\* The position in its list of the candidate of the k-th attempt of p.
PositionOf(p, k) ==
    CHOOSE j \in 1..Len(subnetAddresses[p]) :
        Sent(req[p].kind, subnetAddresses[p][j]) = Adds(p)[k].cand

C19_SameStateMachine ==
    LET ip == 1
        vlan == 2
        n == Len(Adds(ip))
        m == Len(Adds(vlan))
    IN  /\ (n = m /\ SameReplies(ip, vlan, n)) =>
               /\ \A k \in 1..n : PositionOf(ip, k) = k /\ PositionOf(vlan, k) = k
               /\ pc[ip] = pc[vlan]
               /\ i[ip] = i[vlan]
               /\ Outcome(ip) = Outcome(vlan)
               /\ (d[ip].id # 0) <=> (d[vlan].id # 0)
        /\ (n < m /\ SameReplies(ip, vlan, n)) => ~Returned(ip)
        /\ (m < n /\ SameReplies(ip, vlan, m)) => ~Returned(vlan)

\* Both creates reserved their third candidate after the same two refusals.
C19_Witness ==
    /\ Len(Adds(1)) = 3
    /\ Len(Adds(2)) = 3
    /\ SameReplies(1, 2, 3)
    /\ Conflict(Adds(1)[1].resp)
    /\ Outcome(1) = "Reserved"
    /\ Outcome(2) = "Reserved"

(***************************************************************************)
(* C20 - Negative gateway offset, IPv6.  For the candidate s of each       *)
(* reservation call of an IPv6 create with gateway_offset = -m and prefix  *)
(* length p, the gateway sent (and on success stored) is                   *)
(* s + 2^(128-p) - m, exactly, over the full 128 bits.                     *)
(***************************************************************************)
C20_NegativeOffset6 ==
    \A p \in Callers :
        (req[p].kind = "ip6" /\ req[p].gateway_offset < 0) =>
            /\ \A k \in 1..Len(Adds(p)) :
                   Flat(Adds(p)[k].gateway) =
                       AsAddress(NumSub(NumAdd(Flat(Adds(p)[k].cand),
                                               BlockSize6(Adds(p)[k].prefix), 16),
                                        NumOfNat(-req[p].gateway_offset, 16), 16), 32)
            /\ StoredGatewayIsSent(p)

\* 2001:db8:0:0::/64 reserved with offset -1: the gateway stored is
\* 2001:db8:0:0:ffff:ffff:ffff:ffff, whose low 64 bits are all ones.
C20_Witness ==
    \E p \in Callers :
        /\ req[p].kind = "ip6"
        /\ req[p].gateway_offset = -1
        /\ req[p].prefix_size = 64
        /\ result[p] = "nil"
        /\ Flat(d[p].address) = <<2, 0, 0, 1, 0, 13, 11, 8>> \o Zeros(24)
        /\ Flat(d[p].gateway) = <<2, 0, 0, 1, 0, 13, 11, 8>> \o Zeros(8) \o [k \in 1..16 |-> 15]

(***************************************************************************)
(* Subnet creates whose configuration carries a class_parameters map.      *)
(***************************************************************************)
\* The entries a configured class_parameters map may hold: a key of the user's own
\* and the key gateway, each with a value written like an address of the kind.
UserEntries(kind) ==
    IF kind = "ip"
    THEN { [k |-> "vrf", v |-> <<0, 0, 0, 7>>], [k |-> "gateway", v |-> <<192, 0, 2, 1>>] }
    ELSE { [k |-> "vrf", v |-> hexip6toip6(Subnet6(<<0, 0, 0, 7>>))],
           [k |-> "gateway", v |-> hexip6toip6(Subnet6(<<0, 0, 0, 9>>))] }

\* One subnet kind with a parent block, every offset sign, every configured map.
TagConfigurations(kind) ==
    { [c EXCEPT !.class_parameters = m] :
        c \in { x \in Configurations :
                  /\ x.kind = kind
                  /\ x.block = "blk" /\ ~x.terminal
                  /\ x.prefix_size \in {24, 64}
                  /\ x.gateway_offset \in {0, 1, -1} },
        m \in SUBSET UserEntries(kind) }

InitTags == \E kind \in {"ip", "ip6"} : InitOf({1}, TagConfigurations(kind))

NextTags ==
    \E p \in Callers :
        \/ resourceipsubnetCreate_site(p)
        \/ resourceipsubnetCreate_block(p)
        \/ resourceipsubnetCreate_find(p)
        \/ \E resp \in Replies(nextOid) : resourceipsubnetCreate_add(p, resp)
        \/ resourceip6subnetCreate_site(p)
        \/ resourceip6subnetCreate_block(p)
        \/ resourceip6subnetCreate_find(p)
        \/ \E resp \in Replies(nextOid) : resourceip6subnetCreate_add(p, resp)

SpecTags == InitTags /\ [][NextTags]_vars


(***************************************************************************)
(* C21 - Reserved gateway key.  When gateway_offset is not zero, the class *)
(* parameters sent with each reservation attempt hold exactly one value    *)
(* under the key gateway, the gateway computed for that candidate,         *)
(* whatever the configured class_parameters hold (a key gateway included). *)
(***************************************************************************)
IsGatewayEntry(e) == e.k = "gateway"

\* The values the class parameters of a reservation call hold under the key gateway.
GatewayValues(call) ==
    LET entries == SelectSeq(call.class_parameters, IsGatewayEntry)
    IN  [n \in 1..Len(entries) |-> entries[n].v]

C21_ReservedGatewayKey ==
    \A p \in Callers :
        req[p].gateway_offset # 0 =>
            \A n \in 1..Len(Adds(p)) :
                GatewayValues(Adds(p)[n]) = << Adds(p)[n].gateway >>

(***************************************************************************)
(* An IPv4 subnet created by caller 1 with any prefix length and imported  *)
(* by caller 2 into a fresh local state, from what the inventory reports   *)
(* of the object.                                                          *)
(***************************************************************************)
\* Every IPv4 prefix length; the candidate 0.0.0.0 is aligned for all of them.
PrefixLengths == 0..32

ImportCandidate == Zeros(8)

\* What the inventory answers to the information request of caller p: the start
\* and the size of the object of that id as its creator requested them, or that
\* there is no such object.
ImportReplies(p) ==
    IF \E o \in inv : o.oid = d[p].id
    THEN LET o == CHOOSE x \in inv : x.oid = d[p].id
         IN  { r \in InfoReplies(iptohexip(o.cand), prefixlengthtosize(req[o.owner].prefix_size),
                                 ImportedGateway("ip")) : r.status # 404 }
    ELSE { r \in InfoReplies(ImportCandidate, <<0, 0, 0>>, ImportedGateway("ip")) :
             r.status \notin {200} }

InitImport ==
    \E length \in PrefixLengths :
        /\ inv = {}
        /\ nextOid = 1
        /\ req = [p \in Callers |->
                    [kind |-> "ip", prefix_size |-> IF p = 1 THEN length ELSE 0,
                     gateway_offset |-> 0, request_id |-> 0, block |-> "blk",
                     terminal |-> FALSE, class_parameters |-> {}]]
        /\ pc = [p \in Callers |-> IF p = 1 THEN "add" ELSE IF p = 2 THEN "import" ELSE "off"]
        /\ blockInfo = [p \in Callers |-> [id |-> "12", level |-> 1]]
        /\ subnetAddresses = [p \in Callers |-> IF p = 1 THEN <<ImportCandidate>> ELSE <<>>]
        /\ i = [p \in Callers |-> IF p = 1 THEN 1 ELSE 0]
        /\ gateway = [p \in Callers |-> <<>>]
        /\ d = [p \in Callers |->
                  IF p = 2 THEN [NewResourceData EXCEPT !.id = 1] ELSE NewResourceData]
        /\ result = [p \in Callers |-> ""]
        /\ trace = [p \in Callers |-> IF p = 1 THEN SearchOf("ip") ELSE <<>>]

NextImport ==
    \E p \in Callers :
        \/ \E resp \in Replies(nextOid) : resourceipsubnetCreate_add(p, resp)
        \/ \E resp \in ImportReplies(p) : resourceipsubnetImportState(p, resp)

SpecImport == InitImport /\ [][NextImport]_vars


(***************************************************************************)
(* C22 - Prefix/size inverse.  For every IPv4 prefix length p in 0..32 the *)
(* prefix length of the size of p is p: a subnet created with prefix_size  *)
(* p, which the inventory reports with the size 2^(32-p), is imported with *)
(* prefix_size p (and the prefix and the netmask of p).  Sizes that are    *)
(* not a power of two are outside the inverse: no prefix length has them.  *)
(***************************************************************************)
\* Caller p has imported the object it names.
Imported(p) ==
    /\ pc[p] = "done"
    /\ result[p] = "nil"
    /\ Len(trace[p]) > 0
    /\ trace[p][Len(trace[p])].op = "ip_block_subnet_info"

WireOctets == { <<0, 0>>, <<0, 10>>, <<12, 0>>, <<7, 15>>, <<15, 15>> }

WireAddresses == { a \o b \o c \o e : a, b, c, e \in WireOctets }

\* Groups in wire form: 0000, 2001, 0db8, ffff.
WireGroups == { <<0, 0, 0, 0>>, <<2, 0, 0, 1>>, <<0, 13, 11, 8>>, <<15, 15, 15, 15>> }

\* IPv6 addresses in wire form: a first group, six equal groups, a last group.
WireAddresses6 == { a \o b \o b \o b \o b \o b \o b \o c : a, b, c \in WireGroups }

CodecConfiguration(kind) ==
    [kind |-> kind, prefix_size |-> IF kind = "ip" THEN 32 ELSE IF kind = "ip6" THEN 128 ELSE 0,
     gateway_offset |-> 0, request_id |-> 0,
     block |-> IF kind = "pool6" THEN "" ELSE "blk",
     terminal |-> FALSE, class_parameters |-> {}]

InitCodec ==
    \E kind \in {"ip", "ip6", "pool6"} :
    \E h \in IF kind = "ip" THEN WireAddresses ELSE WireAddresses6 :
        /\ inv = {}
        /\ nextOid = 1
        /\ req = [p \in Callers |->
                    IF kind = "pool6"
                    THEN [kind |-> kind, prefix_size |-> 0, gateway_offset |-> 0,
                          request_id |-> 0, block |-> "", terminal |-> FALSE,
                          class_parameters |-> {}, start |-> hexip6toip6(h), end |-> PoolEnd]
                    ELSE CodecConfiguration(kind)]
        /\ pc = [p \in Callers |->
                   IF p # 1 THEN "off" ELSE IF kind = "pool6" THEN "pooladd" ELSE "add"]
        /\ blockInfo = [p \in Callers |-> [id |-> "12", level |-> 1]]
        /\ subnetAddresses = [p \in Callers |-> IF p = 1 /\ kind # "pool6" THEN <<h>> ELSE <<>>]
        /\ i = [p \in Callers |-> IF p = 1 /\ kind # "pool6" THEN 1 ELSE 0]
        /\ gateway = [p \in Callers |-> <<>>]
        /\ d = [p \in Callers |-> NewResourceData]
        /\ result = [p \in Callers |-> ""]
        /\ trace = [p \in Callers |->
                      IF p # 1 THEN <<>>
                      ELSE IF kind = "pool6"
                      THEN << [op |-> "ipsiteidbyname", err |-> ""],
                              [op |-> "ip6subnetinfobyname", err |-> ""] >>
                      ELSE SearchOf(kind)]

NextCodec ==
    \E p \in Callers :
        \/ \E resp \in PairReplies(nextOid) : resourceipsubnetCreate_add(p, resp)
        \/ \E resp \in PairReplies(nextOid) : resourceip6subnetCreate_add(p, resp)
        \/ \E resp \in PairReplies(nextOid) : resourceip6poolCreate_add(p, resp)

SpecCodec == InitCodec /\ [][NextCodec]_vars


(***************************************************************************)
(* C23 - Address round-trip.  For every address of 32 or 128 bits, the     *)
(* wire form of the address converted back is the address: the address a   *)
(* create stores is the candidate the inventory returned, and the start    *)
(* address a pool create sends is the configured one.                      *)
(***************************************************************************)
C23_AddressRoundTrip ==
    /\ \A h \in WireAddresses :
        /\ iptohexip(hexiptoip(h)) = h
        /\ hexiptoip(iptohexip(hexiptoip(h))) = hexiptoip(h)
    /\ \A h \in WireAddresses6 :
        /\ ip6tohexip6(hexip6toip6(h)) = h
        /\ hexip6toip6(ip6tohexip6(hexip6toip6(h))) = hexip6toip6(h)
    /\ \A p \in Callers :
        /\ (req[p].kind = "ip" /\ Returned(p) /\ result[p] = "nil") =>
              /\ iptohexip(d[p].address) = subnetAddresses[p][i[p]]
              /\ hexiptoip(iptohexip(d[p].address)) = d[p].address
        /\ (req[p].kind = "ip6" /\ Returned(p) /\ result[p] = "nil") =>
              /\ ip6tohexip6(d[p].address) = subnetAddresses[p][i[p]]
              /\ hexip6toip6(ip6tohexip6(d[p].address)) = d[p].address
        /\ \A n \in 1..Len(trace[p]) :
              trace[p][n].op = "ip6_pool6_add" =>
                  hexip6toip6(trace[p][n].start_addr) = req[p].start

\* A subnet stored at 192.127.255.10, wire form c07fff0a.
C23_Witness ==
    /\ req[1].kind = "ip"
    /\ Returned(1)
    /\ result[1] = "nil"
    /\ subnetAddresses[1] = << <<12, 0, 7, 15, 15, 15, 0, 10>> >>
    /\ d[1].address = <<192, 127, 255, 10>>

(***************************************************************************)
(* C24 - At most one accepted reservation per invocation.  Within one      *)
(* create, once the inventory has answered a reservation attempt with      *)
(* status 200 or 201, whatever the reply's body, no further candidate is   *)
(* attempted: the inventory never holds two objects of one invocation.     *)
(***************************************************************************)
C24_SingleReservation ==
    \A p \in Callers :
        /\ \A n \in 1..Len(Adds(p)) :
              StatusOK(Adds(p)[n].resp) => n = Len(Adds(p))
        /\ Cardinality({ o \in inv : o.owner = p }) <= 1

(***************************************************************************)
(* C25 - Failed create leaves local state untouched.  When a subnet or     *)
(* VLAN create ends in an error (a lookup or search failure, a transport   *)
(* error, exhaustion), the local ID is unset and the prefix, address,      *)
(* netmask and gateway attributes have not been written; nor are they      *)
(* written while the create is still running.                              *)
(***************************************************************************)
C25_FailedCreateUntouched ==
    \A p \in Callers :
        (result[p] # "nil") => d[p] = NewResourceData

\* An IPv4 create with a gateway offset that computed a gateway for each of its
\* candidates, met a success status without an object id and a refusal, and
\* ended in exhaustion.
C25_Witness ==
    /\ req[1].kind = "ip"
    /\ req[1].gateway_offset # 0
    /\ Returned(1)
    /\ result[1] = ipsubnetUnable
    /\ Len(Adds(1)) >= 2
    /\ StatusOK(Adds(1)[1].resp)
    /\ gateway[1] # <<>>
    /\ d[1] = NewResourceData

(***************************************************************************)
(* More concurrent creates than candidates: NCallers creates of one        *)
(* configuration, each past its search and holding the same list of fewer  *)
(* than NCallers candidates, against an inventory that grants each         *)
(* candidate once and in which nothing is deleted.                         *)
(***************************************************************************)
InitOver ==
    \E c \in RaceConfigurations, n \in 1..(NCallers - 1) :
        /\ inv = {}
        /\ nextOid = 1
        /\ req = [p \in Callers |-> c]
        /\ pc = [p \in Callers |-> "add"]
        /\ blockInfo = [p \in Callers |->
                          IF c.kind = "vlan" THEN NoBlockInfo ELSE [id |-> "12", level |-> 1]]
        /\ subnetAddresses = [p \in Callers |-> SubSeq(RaceList(c.kind), 1, n)]
        /\ i = [p \in Callers |-> 1]
        /\ gateway = [p \in Callers |-> <<>>]
        /\ d = [p \in Callers |-> NewResourceData]
        /\ result = [p \in Callers |-> ""]
        /\ trace = [p \in Callers |-> SearchOf(c.kind)]

SpecOver == InitOver /\ [][NextRace]_vars


(***************************************************************************)
(* C26 - Oversubscription (under SpecOver).  With m concurrent creates on  *)
(* the same list of n < m candidates and an inventory that grants each     *)
(* candidate once, under every interleaving: never more than n creates     *)
(* succeed, the candidates of two that succeeded differ, and once all have *)
(* returned exactly n have succeeded and exactly m - n have returned the   *)
(* exhaustion error, each of these after trying every candidate.           *)
(***************************************************************************)
Succeeded == { p \in Callers : Returned(p) /\ Reserved(p) }

Exhausted == { p \in Callers : Returned(p) /\ result[p] \in ExhaustionErrors /\ d[p].id = 0 }

C26_Oversubscription ==
    LET n == Len(subnetAddresses[1])
    IN  /\ Cardinality(Succeeded) <= n
        /\ \A p, q \in Succeeded : p # q => ReservedBy(p) # ReservedBy(q)
        /\ \A p \in Callers : Returned(p) => p \in Succeeded \cup Exhausted
        /\ \A p \in Exhausted : Len(Adds(p)) = n
        /\ (\A p \in Callers : Returned(p)) =>
              /\ Cardinality(Succeeded) = n
              /\ Cardinality(Exhausted) = NCallers - n
              /\ Cardinality(inv) = n

\* Every create has returned: two hold the two candidates, the others met exhaustion.
C26_Witness ==
    /\ \A p \in Callers : Returned(p)
    /\ Len(subnetAddresses[1]) = 2
    /\ Cardinality(Succeeded) = 2
    /\ Cardinality(Exhausted) = NCallers - 2
    /\ \E p \in Succeeded : Len(Adds(p)) = 2

(***************************************************************************)
(* C27 - Terminal top-level block is rejected early.  A subnet create with *)
(* no parent block named and terminal = true issues the space resolution   *)
(* and nothing else: once the space is resolved it has returned the error  *)
(* that a terminal block cannot be created, with no candidate search, no   *)
(* reservation call, no object in the inventory and no local state.        *)
(***************************************************************************)
TerminalBlockErrors ==
    {"Can't create a terminal IP block subnet", "Can't create a terminal IPv6 block subnet"}

C27_TerminalBlockRejected ==
    \A p \in Callers :
        (req[p].kind \in {"ip", "ip6"} /\ req[p].block = "" /\ req[p].terminal) =>
            /\ Len(trace[p]) <= 1
            /\ \A k \in 1..Len(trace[p]) : trace[p][k].op = "ipsiteidbyname"
            /\ { o \in inv : o.owner = p } = {}
            /\ d[p] = NewResourceData
            /\ (Len(trace[p]) = 1 /\ trace[p][1].err = "") =>
                   Returned(p) /\ result[p] \in TerminalBlockErrors
            /\ Returned(p) => result[p] \in TerminalBlockErrors \cup (LookupErrors \ {""})

\* An IPv4 create of a terminal top-level block, rejected after its space resolved.
C27_Witness ==
    /\ req[1].kind = "ip"
    /\ req[1].block = ""
    /\ req[1].terminal
    /\ Returned(1)
    /\ Len(trace[1]) = 1
    /\ trace[1][1].err = ""
    /\ result[1] = "Can't create a terminal IP block subnet"

(***************************************************************************)
(* C28 - Subnet delete does not depend on the gateway delete.  A gateway   *)
(* deletion call, whatever its outcome (success, inventory error,          *)
(* transport error), is followed by the subnet deletion request of the     *)
(* same Delete, and what Delete returns and whether it unsets the local ID *)
(* is decided by the answer to the subnet deletion request alone.          *)
(***************************************************************************)
\* What a subnet Delete returns for the answer resp to its deletion request.
DeleteResultOf(kind, resp) ==
    IF resp.err # "" THEN resp.err
    ELSE IF resp.status \in {200, 204} THEN "nil"
    ELSE IF kind = "ip" THEN "Unable to delete IP subnet" ELSE "Unable to delete IPv6 subnet"

C28_DeleteIgnoresGateway ==
    \A p \in Callers :
        req[p].kind \in {"ip", "ip6"} =>
            /\ pc[p] = "delete" <=>
                  (Len(trace[p]) > 0 /\ IsGatewayDelete(trace[p][Len(trace[p])]))
            /\ \A k \in 1..Len(trace[p]) :
                  LET call == trace[p][k]
                  IN  /\ (IsGatewayDelete(call) /\ k < Len(trace[p])) =>
                             IsSubnetDelete(trace[p][k + 1])
                      /\ (IsSubnetDelete(call) /\ k = Len(trace[p])) =>
                             /\ Returned(p)
                             /\ result[p] = DeleteResultOf(req[p].kind, call.resp)
                             /\ d[p].id = 0 <=> result[p] = "nil"

\* A Delete whose gateway deletion met a transport error and whose subnet deletion
\* was confirmed; another whose gateway deletion was refused.
C28_Witness ==
    \E p \in Callers :
        /\ Returned(p)
        /\ result[p] = "nil"
        /\ d[p].id = 0
        /\ Len(trace[p]) >= 2
        /\ IsSubnetDelete(trace[p][Len(trace[p])])
        /\ IsGatewayDelete(trace[p][Len(trace[p]) - 1])
        /\ trace[p][Len(trace[p]) - 1].resp.err # ""

(***************************************************************************)
(* C29 - Delete clears the local ID only on confirmed deletion.  A Delete  *)
(* unsets the local ID and reports success if and only if the inventory    *)
(* answered the deletion request with status 200 or 204; for every other   *)
(* reply (an error status with an empty body included) and for a transport *)
(* error it returns an error and leaves the local ID as it was.            *)
(***************************************************************************)
IsDelete(call) == IsSubnetDelete(call) \/ call.op = "vlm_vlan_delete"

Confirmed(resp) == resp.err = "" /\ resp.status \in {200, 204}

C29_DeleteOnlyWhenConfirmed ==
    \A p \in Callers :
        (Returned(p) /\ Len(trace[p]) > 0 /\ IsDelete(trace[p][Len(trace[p])])) =>
            LET call == trace[p][Len(trace[p])]
            IN  /\ result[p] = "nil" <=> Confirmed(call.resp)
                /\ d[p].id = 0 <=> Confirmed(call.resp)
                /\ ~Confirmed(call.resp) => d[p].id = call.id

(***************************************************************************)
(* The creates of the other resources: device, IP alias, application, DNS  *)
(* record and IPv6 MAC association.  Each issues one creation request.     *)
(***************************************************************************)
\* The SOLIDserver versions a provider may be configured against.
Versions == {700, 710}

SimpleConfigurations ==
    [kind : {"device", "alias", "application", "rr", "ip6mac"}, prefix_size : {0},
     gateway_offset : {0}, request_id : {0}, block : {""}, terminal : {FALSE},
     class_parameters : {{}}, version : Versions]

\* What these handlers make of the answer to the creation request: the object is
\* "created", the request met a transport "error", or the handler is "unable".
simpleAnswer(resp) ==
    IF resp.err = ""
    THEN IF (resp.status = 200 \/ resp.status = 201) /\ Len(resp.body) > 0
         THEN IF "ret_oid" \in DOMAIN resp.body[1] THEN "created" ELSE "unable"
         ELSE "unable"
    ELSE "error"

\* The request of a create that sends one, and the handling of its answer.
simpleCreate(p, kind, op, resp, unable) ==
    /\ pc[p] = "add"
    /\ req[p].kind = kind
    /\ Call(p, [op |-> op, add_flag |-> "new_only", resp |-> resp])
    /\ IF simpleAnswer(resp) = "created"
       THEN /\ d' = [d EXCEPT ![p].id = resp.body[1].ret_oid]
            /\ Return(p, "nil")
       ELSE IF simpleAnswer(resp) = "error"
       THEN Return(p, resp.err) /\ UNCHANGED d
       ELSE Return(p, unable) /\ UNCHANGED d
    /\ UNCHANGED <<inv, nextOid, req, blockInfo, subnetAddresses, i, gateway>>

resourcedeviceCreate(p, resp) ==
    simpleCreate(p, "device", "hostdev_add", resp, "Unable to create device")

resourcednsrrCreate(p, resp) ==
    simpleCreate(p, "rr", "dns_rr_add", resp, "SOLIDServer - Unable to create RR")

\* The application handlers mistakenly serve every version.
applicationSupportedAlways(version) == TRUE

\* if s.Version < 710: the application handlers serve no version before 7.1.
applicationSupported(version) == ~(version < 710)

\* resourceapplicationCreate: no request to a version before 7.1.  The version is
\* the one the provider met when it was configured (req[p].version).
resourceapplicationCreate(p, resp) ==
    /\ pc[p] = "add"
    /\ req[p].kind = "application"
    /\ IF ~applicationSupported(req[p].version)
       THEN /\ Return(p, "Object not supported in this SOLIDserver version")
            /\ UNCHANGED <<inv, nextOid, req, blockInfo, subnetAddresses, i, gateway, d, trace>>
       ELSE simpleCreate(p, "application", "app_application_add", resp,
                         "Unable to create application")

\* resourceipaliasCreate: ipsiteidbyname
resourceipaliasCreate_site(p) ==
    /\ pc[p] = "site"
    /\ req[p].kind = "alias"
    /\ \E err \in LookupErrors :
        /\ Call(p, [op |-> "ipsiteidbyname", err |-> err])
        /\ IF err # "" THEN Return(p, err) ELSE Goto(p, "address")
    /\ UNCHANGED <<inv, nextOid, req, blockInfo, subnetAddresses, i, gateway, d>>

\* resourceipaliasCreate: ipaddressidbyip
resourceipaliasCreate_address(p) ==
    /\ pc[p] = "address"
    /\ req[p].kind = "alias"
    /\ \E err \in LookupErrors :
        /\ Call(p, [op |-> "ipaddressidbyip", err |-> err])
        /\ IF err # "" THEN Return(p, err) ELSE Goto(p, "add")
    /\ UNCHANGED <<inv, nextOid, req, blockInfo, subnetAddresses, i, gateway, d>>

\* resourceipaliasCreate: the creation request
resourceipaliasCreate_add(p, resp) ==
    simpleCreate(p, "alias", "ip_alias_add", resp, "Unable to create IP alias")

\* What resourceip6macCreate makes of the answer.  A success status with a body that
\* has no ret_oid leaves the if without a return and reaches diag.FromErr(err) with
\* err = nil, which is no error: "nil-error".
ip6macAnswer(resp) ==
    IF resp.err = ""
    THEN IF (resp.status = 200 \/ resp.status = 201) /\ Len(resp.body) > 0
         THEN IF "ret_oid" \in DOMAIN resp.body[1] THEN "created" ELSE "nil-error"
         ELSE "unable"
    ELSE "error"

\* resourceip6macCreate: one edit_only request on the address.
resourceip6macCreate(p, resp) ==
    /\ pc[p] = "add"
    /\ req[p].kind = "ip6mac"
    /\ Call(p, [op |-> "ip6_address6_add", add_flag |-> "edit_only", resp |-> resp])
    /\ IF ip6macAnswer(resp) = "created"
       THEN /\ d' = [d EXCEPT ![p].id = resp.body[1].ret_oid]
            /\ Return(p, "nil")
       ELSE IF ip6macAnswer(resp) = "nil-error"
       THEN Return(p, "nil") /\ UNCHANGED d
       ELSE IF ip6macAnswer(resp) = "error"
       THEN Return(p, resp.err) /\ UNCHANGED d
       ELSE Return(p, "Failed to create IP MAC association") /\ UNCHANGED d
    /\ UNCHANGED <<inv, nextOid, req, blockInfo, subnetAddresses, i, gateway>>

\* One create call of any resource.
InitCreates == InitOf({1}, Configurations \cup PoolConfigurations \cup SimpleConfigurations)

NextCreates ==
    \/ NextLookup
    \/ \E p \in Callers :
        \/ \E resp \in Replies(nextOid) : resourcedeviceCreate(p, resp)
        \/ \E resp \in Replies(nextOid) : resourcednsrrCreate(p, resp)
        \/ \E resp \in Replies(nextOid) : resourceapplicationCreate(p, resp)
        \/ resourceipaliasCreate_site(p)
        \/ resourceipaliasCreate_address(p)
        \/ \E resp \in Replies(nextOid) : resourceipaliasCreate_add(p, resp)
        \/ \E resp \in Replies(nextOid) : resourceip6macCreate(p, resp)

SpecCreates == InitCreates /\ [][NextCreates]_vars


(***************************************************************************)
(* C30 - Create success implies an ID.  Whenever a Create of any resource  *)
(* returns without error, the local ID is the object id the inventory      *)
(* returned with its last creation request; a reply with a success status  *)
(* and no ret_oid is never reported as success.                            *)
(***************************************************************************)
C30_CreateSuccessHasId ==
    \A p \in Callers :
        (Returned(p) /\ result[p] = "nil") =>
            /\ d[p].id # 0
            /\ Len(trace[p]) > 0
            /\ Reserving(trace[p][Len(trace[p])].resp)
            /\ trace[p][Len(trace[p])].resp.body[1].ret_oid = d[p].id

(***************************************************************************)
(* Refresh of a resource already held in local state: Read, Exists and     *)
(* import of a pool or an application, and the update and delete of an     *)
(* application.  req[p] holds the attributes of the schema, d[p] the ID    *)
(* and the computed gateway; the texts of this section are strings, and an *)
(* unset gateway is the empty string.                                      *)
(***************************************************************************)
MaxRefresh == 2

\* class_parameters of the configuration, an entry [k, v] for each key.
DeclaredTags ==
    { {},
      {[k |-> "vrf", v |-> "a"]},
      {[k |-> "vrf", v |-> "a"], [k |-> "dhcprange6", v |-> "x"]} }

\* The class parameters of an object of the inventory, as url.ParseQuery returns
\* them: keys, each with its first value.
RetrievedTags ==
    { {},
      {[k |-> "vrf", v |-> "b"], [k |-> "gateway", v |-> "10.0.0.1"]},
      {[k |-> "dhcprange6", v |-> "1"]},
      {[k |-> "dhcprange6", v |-> "Yes"], [k |-> "vrf", v |-> "b"]},
      {[k |-> "dhcprange6", v |-> "0"]} }

\* retrievedClassParameters[ck]: rvExist and rv[0]
HasTag(tags, ck) == \E e \in tags : e.k = ck

TagValue(tags, ck) == (CHOOSE e \in tags : e.k = ck).v

\* strings.ToLower on the texts of this section.
ToLower(s) == IF s \in {"Yes", "YES", "yes"} THEN "yes" ELSE IF s = "N2" THEN "n2" ELSE s

\* d.Set(key, value): writes an attribute of the schema; a key the schema does not
\* have is an error, which these handlers drop, and writes nothing.
Set(state, key, value) ==
    IF key \in DOMAIN state THEN [state EXCEPT ![key] = value] ELSE state

\* The attributes of a resource under refresh.  One record carries the attributes
\* of every kind; dhcp_range is the pool's, version the provider's.
RefreshConfigurations(kind) ==
    [kind : {kind}, prefix_size : {0}, gateway_offset : {0}, request_id : {0},
     block : {""}, terminal : {FALSE}, class_parameters : DeclaredTags,
     name : {"n1"},
     dhcp_range : IF kind = "pool6" THEN BOOLEAN ELSE {FALSE},
     version : IF kind = "application" THEN Versions ELSE {710}]

\* The replies to an info request.
RefreshReplies ==
    { [err |-> "timeout", status |-> 0, body |-> <<>>],
      [err |-> "", status |-> 200, body |-> <<>>],
      [err |-> "", status |-> 404, body |-> <<[errmsg |-> "not found"]>>],
      [err |-> "", status |-> 201,
       body |-> <<[name |-> "N2", is_terminal |-> "1", class_parameters |-> {}]>>] }
    \cup { [err |-> "", status |-> 200,
            body |-> <<[name |-> "N2", is_terminal |-> "1", class_parameters |-> t]>>] :
           t \in RetrievedTags }

\* A further refresh may start on the resource of p.
MayRefresh(p) ==
    /\ pc[p] = "done"
    /\ d[p].id # 0
    /\ Len(trace[p]) < MaxRefresh

\* Read takes a created (201) answer for the object too.
readAnswerCreated(resp) ==
    IF resp.err = ""
    THEN IF (resp.status = 200 \/ resp.status = 201) /\ Len(resp.body) > 0
         THEN "found" ELSE "unable"
    ELSE "error"

\* What Read and import make of the answer: the object is "found", the request met
\* a transport "error", or the handler is "unable".
readAnswer(resp) ==
    IF resp.err = ""
    THEN IF resp.status = 200 /\ Len(resp.body) > 0 THEN "found" ELSE "unable"
    ELSE "error"

\* The computed map takes over the keys of the inventory.
computedClassParametersMerge(current, retrieved) ==
    { [k |-> e.k, v |-> IF HasTag(retrieved, e.k) THEN TagValue(retrieved, e.k) ELSE ""] :
      e \in current } \cup { e \in retrieved : ~HasTag(current, e.k) }

\* computedClassParameters: for each key of the current map, the retrieved value
\* or the empty string.
computedClassParameters(current, retrieved) ==
    { [k |-> e.k, v |-> IF HasTag(retrieved, e.k) THEN TagValue(retrieved, e.k) ELSE ""] :
      e \in current }

\* The dhcprange6 tag as a boolean.
dhcprangeOf(tags) ==
    TagValue(tags, "dhcprange6") = "1" \/ ToLower(TagValue(tags, "dhcprange6")) = "yes"

\* The attributes after the d.Set calls of a successful Read or import on the
\* first object b of the answer.
ReadState(kind, state, b) ==
    LET computed == computedClassParameters(state.class_parameters, b.class_parameters)
    IN  CASE kind \in {"ip", "ip6"} ->
               Set(Set(Set(state, "name", b.name), "terminal", b.is_terminal = "1"),
                   "class_parameters", computed)
          [] kind = "vlan" -> Set(state, "name", b.name)
          [] kind = "pool6" ->
               Set(IF HasTag(b.class_parameters, "dhcprange6")
                   THEN Set(Set(state, "name", b.name), "dhcprange",
                            dhcprangeOf(b.class_parameters))
                   ELSE Set(state, "name", b.name),
                   "class_parameters", computed)
          [] kind = "device" ->
               Set(Set(state, "name", ToLower(b.name)), "class_parameters", computed)
          [] OTHER ->
               Set(Set(state, "name", b.name), "class_parameters", computed)

\* d.Set("gateway", gateway[0]) of a subnet Read.
ReadGateway(kind, data, b) ==
    IF kind \in {"ip", "ip6"} /\ HasTag(b.class_parameters, "gateway")
    THEN [data EXCEPT !.gateway = TagValue(b.class_parameters, "gateway")]
    ELSE data

\* The info request of a Read or an import, and the handling of its answer.
refresh(p, handler, kind, service, resp, unable) ==
    /\ req[p].kind = kind
    /\ Call(p, [op |-> handler, service |-> service, id |-> d[p].id, resp |-> resp])
    /\ IF readAnswer(resp) = "found"
       THEN /\ req' = [req EXCEPT ![p] = ReadState(kind, @, resp.body[1])]
            /\ d' = [d EXCEPT ![p] = ReadGateway(kind, @, resp.body[1])]
            /\ Return(p, "nil")
       ELSE IF readAnswer(resp) = "error"
       THEN Return(p, resp.err) /\ UNCHANGED <<req, d>>
       ELSE Return(p, unable) /\ UNCHANGED <<req, d>>
    /\ UNCHANGED <<inv, nextOid, blockInfo, subnetAddresses, i, gateway>>

resourceipsubnetRead(p, resp) ==
    /\ MayRefresh(p)
    /\ refresh(p, "read", "ip", "ip_block_subnet_info", resp, "Unable to find IP subnet")

resourceip6subnetRead(p, resp) ==
    /\ MayRefresh(p)
    /\ refresh(p, "read", "ip6", "ip6_block6_subnet6_info", resp,
               "Unable to find IPv6 subnet")

resourcevlanRead(p, resp) ==
    /\ MayRefresh(p)
    /\ refresh(p, "read", "vlan", "vlmvlan_info", resp, "SOLIDServer - Unable to find vlan")

resourceip6poolRead(p, resp) ==
    /\ MayRefresh(p)
    /\ refresh(p, "read", "pool6", "ip6_pool6_info", resp,
               "SOLIDServer - Unable to find IPv6 pool")

resourceip6poolImportState(p, resp) ==
    /\ pc[p] = "import"
    /\ refresh(p, "import", "pool6", "ip6_pool6_info", resp,
               "SOLIDServer - Unable to find and import IPv6 pool (oid)")

resourcedeviceRead(p, resp) ==
    /\ MayRefresh(p)
    /\ refresh(p, "read", "device", "hostdev_info", resp, "Unable to find device")

\* Exists takes only a 200 answer for the object.
existsAnswerStrict(resp) ==
    IF resp.err = ""
    THEN IF resp.status = 200 /\ Len(resp.body) > 0 THEN "true" ELSE "false"
    ELSE "error"

\* What Exists makes of the answer: "true", "false", or a transport "error".
existsAnswer(resp) ==
    IF resp.err = ""
    THEN IF (resp.status = 200 \/ resp.status = 201) /\ Len(resp.body) > 0
         THEN "true" ELSE "false"
    ELSE "error"

\* The info request of an Exists and the handling of its answer.  The results
\* "true" and "false" are returned with no error; a transport error is returned
\* with false.
exists(p, kind, service, resp) ==
    /\ MayRefresh(p)
    /\ req[p].kind = kind
    /\ Call(p, [op |-> "exists", service |-> service, id |-> d[p].id, resp |-> resp])
    /\ IF existsAnswer(resp) = "true"
       THEN Return(p, "true") /\ UNCHANGED d
       ELSE IF existsAnswer(resp) = "false"
       THEN /\ d' = [d EXCEPT ![p].id = 0]
            /\ Return(p, "false")
       ELSE Return(p, resp.err) /\ UNCHANGED d
    /\ UNCHANGED <<inv, nextOid, req, blockInfo, subnetAddresses, i, gateway>>

resourcevlanExists(p, resp) == exists(p, "vlan", "vlmvlan_info", resp)

resourceip6poolExists(p, resp) == exists(p, "pool6", "ip6_pool6_info", resp)

\* The return of an application handler that meets a version before 7.1.
notSupported(p, error) ==
    /\ Return(p, error)
    /\ UNCHANGED <<inv, nextOid, req, blockInfo, subnetAddresses, i, gateway, d, trace>>

resourceapplicationRead(p, resp) ==
    /\ MayRefresh(p)
    /\ req[p].kind = "application"
    /\ IF ~applicationSupported(req[p].version)
       THEN notSupported(p, "Object not supported in this SOLIDserver version")
       ELSE refresh(p, "read", "application", "app_application_info", resp,
                    "Unable to find application")

resourceapplicationImportState(p, resp) ==
    /\ pc[p] = "import"
    /\ req[p].kind = "application"
    /\ IF ~applicationSupported(req[p].version)
       THEN notSupported(p, "SOLIDServer - Object not supported in this SOLIDserver version")
       ELSE refresh(p, "import", "application", "app_application_info", resp,
                    "SOLIDServer - Unable to find and import application (oid)")

\* resourceapplicationUpdate: one request on the object of the local ID, which
\* becomes the id of the answer.
resourceapplicationUpdate(p, resp) ==
    /\ MayRefresh(p)
    /\ req[p].kind = "application"
    /\ IF ~applicationSupported(req[p].version)
       THEN notSupported(p, "Object not supported in this SOLIDserver version")
       ELSE /\ Call(p, [op |-> "update", service |-> "app_application_add",
                        id |-> d[p].id, resp |-> resp])
            /\ IF ipsubnetUpdateAnswer(resp) = "updated"
               THEN /\ d' = [d EXCEPT ![p].id = resp.body[1].ret_oid]
                    /\ Return(p, "nil")
               ELSE IF ipsubnetUpdateAnswer(resp) = "error"
               THEN Return(p, resp.err) /\ UNCHANGED d
               ELSE Return(p, "Unable to update application") /\ UNCHANGED d
            /\ UNCHANGED <<inv, nextOid, req, blockInfo, subnetAddresses, i, gateway>>

resourceapplicationDelete(p, resp) ==
    /\ MayRefresh(p)
    /\ req[p].kind = "application"
    /\ IF ~applicationSupported(req[p].version)
       THEN notSupported(p, "Object not supported in this SOLIDserver version")
       ELSE /\ Call(p, [op |-> "delete", service |-> "app_application_delete",
                        id |-> d[p].id, resp |-> resp])
            /\ InventoryDelete(d[p].id, resp)
            /\ IF ipsubnetDeleteAnswer(resp) = "deleted"
               THEN /\ d' = [d EXCEPT ![p].id = 0]
                    /\ Return(p, "nil")
               ELSE IF ipsubnetDeleteAnswer(resp) = "error"
               THEN Return(p, resp.err) /\ UNCHANGED d
               ELSE Return(p, "Unable to delete application") /\ UNCHANGED d
            /\ UNCHANGED <<nextOid, req, blockInfo, subnetAddresses, i, gateway>>

\* Terraform's calls on one resource of caller 1: a create of an application, an
\* import of a pool or an application into a state that holds the ID only, or
\* further calls on object 1 of the inventory held under the local ID 1.
InitRefresh ==
    /\ \E kind \in {"ip", "ip6", "vlan", "pool6", "device", "application"} :
       \E c \in RefreshConfigurations(kind) :
       \E start \in {"done"}
                     \cup (IF kind \in {"pool6", "application"} THEN {"import"} ELSE {})
                     \cup (IF kind = "application" THEN {"add"} ELSE {}) :
        /\ start # "done" => c.class_parameters = {} /\ c.dhcp_range = FALSE
        /\ req = [p \in Callers |-> c]
        /\ pc = [p \in Callers |-> IF p = 1 THEN start ELSE "off"]
        /\ d = [p \in Callers |->
                  [id |-> IF p = 1 /\ start # "add" THEN 1 ELSE 0, prefix |-> <<>>,
                   address |-> <<>>, netmask |-> <<>>, gateway |-> ""]]
        /\ inv = IF start = "add" THEN {}
                 ELSE {[kind |-> kind, cand |-> <<>>, owner |-> 0, oid |-> 1]}
        /\ nextOid = IF start = "add" THEN 1 ELSE 2
    /\ blockInfo = [p \in Callers |-> NoBlockInfo]
    /\ subnetAddresses = [p \in Callers |-> <<>>]
    /\ i = [p \in Callers |-> 0]
    /\ gateway = [p \in Callers |-> <<>>]
    /\ result = [p \in Callers |-> ""]
    /\ trace = [p \in Callers |-> <<>>]

NextRefresh ==
    \E p \in Callers :
        \/ \E resp \in RefreshReplies : resourceipsubnetRead(p, resp)
        \/ \E resp \in RefreshReplies : resourceip6subnetRead(p, resp)
        \/ \E resp \in RefreshReplies : resourcevlanRead(p, resp)
        \/ \E resp \in RefreshReplies : resourceip6poolRead(p, resp)
        \/ \E resp \in RefreshReplies : resourceip6poolImportState(p, resp)
        \/ \E resp \in RefreshReplies : resourcedeviceRead(p, resp)
        \/ \E resp \in RefreshReplies : resourcevlanExists(p, resp)
        \/ \E resp \in RefreshReplies : resourceip6poolExists(p, resp)
        \/ \E resp \in Replies(nextOid) : resourceapplicationCreate(p, resp)
        \/ \E resp \in RefreshReplies : resourceapplicationRead(p, resp)
        \/ \E resp \in RefreshReplies : resourceapplicationImportState(p, resp)
        \/ \E resp \in UpdateReplies(d[p].id) : resourceapplicationUpdate(p, resp)
        \/ \E resp \in DeleteReplies : resourceapplicationDelete(p, resp)

SpecRefresh == InitRefresh /\ [][NextRefresh]_vars

\* The last call of p.
LastCall(p) == trace[p][Len(trace[p])]

\* A reply that is status 200 with a non-empty body.
Found(resp) == resp.err = "" /\ resp.status = 200 /\ Len(resp.body) > 0

\* The step is a call of handler by p: one more request in its trace.
Calls(p, handler) ==
    /\ Len(trace'[p]) = Len(trace[p]) + 1
    /\ trace'[p][Len(trace'[p])].op = handler

(***************************************************************************)
(* C31 - Failed Read changes nothing.  When Read of a subnet, VLAN, IPv6   *)
(* pool or device gets a transport error or a reply that is not status 200 *)
(* with a non-empty body, it returns an error and leaves the local ID and  *)
(* every attribute of the local state unchanged.                           *)
(***************************************************************************)
C31_FailedReadChangesNothing ==
    [][\A p \in Callers :
         (/\ Calls(p, "read")
          /\ req[p].kind \in {"ip", "ip6", "vlan", "pool6", "device"}
          /\ ~Found(trace'[p][Len(trace'[p])].resp)) =>
             /\ result'[p] \notin {"", "nil"}
             /\ d'[p] = d[p]
             /\ req'[p] = req[p]]_vars

\* A Read answered 201 with the object has returned an error, the resource still
\* held with its attributes.
C31_Witness ==
    \E p \in Callers :
        /\ Len(trace[p]) > 0
        /\ LastCall(p).op = "read"
        /\ req[p].kind \in {"ip", "ip6", "vlan", "pool6", "device"}
        /\ LastCall(p).resp.status = 201
        /\ result[p] \notin {"", "nil"}
        /\ d[p].id = 1
        /\ req[p].name = "n1"

\* A reply of status 200 or 201 with a non-empty body.
Present(resp) == resp.err = "" /\ resp.status \in {200, 201} /\ Len(resp.body) > 0

C32_WitnessAbsent ==
    \E p \in Callers :
        /\ Len(trace[p]) > 0
        /\ LastCall(p).op = "exists"
        /\ LastCall(p).resp.status = 404
        /\ result[p] = "false"
        /\ d[p].id = 0

\* The keys of a map of class parameters.
Keys(tags) == { e.k : e \in tags }

(***************************************************************************)
(* C33 - Read keeps the declared tag keys.  After a successful Read of a   *)
(* subnet, pool, device or application, the key set of class_parameters in *)
(* local state equals the key set it had before the Read; each value is    *)
(* the inventory's value for that key, or the empty string when the        *)
(* inventory has no such key, and keys present only in the inventory       *)
(* (including gateway) are never added to class_parameters.                *)
(***************************************************************************)
C33_ReadKeepsDeclaredKeys ==
    [][\A p \in Callers :
         (/\ Calls(p, "read")
          /\ req[p].kind \in {"ip", "ip6", "pool6", "device", "application"}
          /\ result'[p] = "nil") =>
             LET retrieved == trace'[p][Len(trace'[p])].resp.body[1].class_parameters
                 before == req[p].class_parameters
                 after == req'[p].class_parameters
             IN  /\ Keys(after) = Keys(before)
                 /\ Cardinality(after) = Cardinality(Keys(after))
                 /\ \A e \in after :
                        e.v = IF HasTag(retrieved, e.k) THEN TagValue(retrieved, e.k) ELSE ""
                 /\ \A e \in retrieved : e.k \notin Keys(before) => e.k \notin Keys(after)]_vars

\* A subnet declared with vrf and dhcprange6 has been read from an inventory that
\* holds vrf and gateway: vrf is refreshed, dhcprange6 emptied, gateway kept out.
C33_Witness ==
    \E p \in Callers :
        /\ Len(trace[p]) > 0
        /\ LastCall(p).op = "read"
        /\ req[p].kind = "ip"
        /\ result[p] = "nil"
        /\ HasTag(LastCall(p).resp.body[1].class_parameters, "gateway")
        /\ req[p].class_parameters =
               {[k |-> "vrf", v |-> "b"], [k |-> "dhcprange6", v |-> ""]}
        /\ d[p].gateway = "10.0.0.1"

\* The error of an application handler that meets a version before 7.1: the
\* import handler's text has the provider's prefix.
NotSupportedError(call) ==
    IF call = "import"
    THEN "SOLIDServer - Object not supported in this SOLIDserver version"
    ELSE "Object not supported in this SOLIDserver version"

(***************************************************************************)
(* C34 - Version gate.  When the inventory version is below 710, every     *)
(* application operation (create, update, delete, read, import) returns    *)
(* the not-supported error without issuing any request to the inventory    *)
(* and without changing the local ID.                                      *)
(***************************************************************************)
C34_VersionGate ==
    [][\A p \in Callers :
         (/\ req[p].kind = "application"
          /\ req[p].version < 710
          /\ pc[p] # "off") =>
             /\ trace'[p] = trace[p]
             /\ inv' = inv
             /\ d'[p].id = d[p].id
             /\ pc'[p] = "done"
             /\ result'[p] = NotSupportedError(pc[p])]_vars

\* An application held under ID 1 has met the not-supported error on a read,
\* update or delete, with no request sent.
C34_Witness ==
    \E p \in Callers :
        /\ req[p].kind = "application"
        /\ req[p].version < 710
        /\ pc[p] = "done"
        /\ result[p] = "Object not supported in this SOLIDserver version"
        /\ d[p].id = 1
        /\ trace[p] = <<>>
        /\ inv # {}

\* A create of an application has met the not-supported error.
C34_WitnessCreate ==
    \E p \in Callers :
        /\ req[p].kind = "application"
        /\ req[p].version < 710
        /\ pc[p] = "done"
        /\ result[p] = "Object not supported in this SOLIDserver version"
        /\ d[p].id = 0
        /\ trace[p] = <<>>

(***************************************************************************)
(* C35 - IPv6 pool Read refreshes the DHCP flag.  After a successful Read  *)
(* or import of an IPv6 pool whose inventory tags contain dhcprange6, the  *)
(* dhcp_range attribute of local state is true when the tag is 1 or yes    *)
(* and false otherwise, whatever value dhcp_range held before.             *)
(***************************************************************************)
C35_PoolReadRefreshesDhcpRange ==
    [][\A p \in Callers :
         (/\ Calls(p, "read") \/ Calls(p, "import")
          /\ req[p].kind = "pool6"
          /\ result'[p] = "nil"
          /\ HasTag(trace'[p][Len(trace'[p])].resp.body[1].class_parameters,
                    "dhcprange6")) =>
             req'[p].dhcp_range =
                 dhcprangeOf(trace'[p][Len(trace'[p])].resp.body[1].class_parameters)]_vars

\* A pool has been read from an inventory whose dhcprange6 tag does not agree
\* with the dhcp_range of local state.
C35_StaleDhcpRange ==
    \E p \in Callers :
        /\ Len(trace[p]) > 0
        /\ LastCall(p).op \in {"read", "import"}
        /\ req[p].kind = "pool6"
        /\ result[p] = "nil"
        /\ HasTag(LastCall(p).resp.body[1].class_parameters, "dhcprange6")
        /\ req[p].dhcp_range # dhcprangeOf(LastCall(p).resp.body[1].class_parameters)


====
